---- MODULE Spec2Model ----
(***************************************************************************)
(* A model of the Remainders wallpaper engine: the calendar arithmetic of  *)
(* lib/calcs, the enhanced YearView (Days and Months layouts), the         *)
(* /api/[username] route that calls it, and the legacy /api/wallpaper      *)
(* route (life and year boxes).                                            *)
(*                                                                         *)
(* Lengths are exact rationals <<n, d>> (the code computes in IEEE         *)
(* doubles; the model takes the exact value of every expression).  Layout  *)
(* ratios are given in hundredths.  Time is kept to the hour: an instant   *)
(* is [year, doy, hour], the wall clock of the server's local time zone.   *)
(* Colours are modelled by their role in the palette ("past", "current",   *)
(* "future"), not by their hex value.                                      *)
(***************************************************************************)
EXTENDS Integers, Sequences, FiniteSets, Bags, TLC

VARIABLES
    clock,        \* the server's wall clock: [year, doy, hour]
    zone,         \* the server's time zone: "UTC", "north" or "south" (DST rules)
    ticks,        \* how many times the clock has been advanced
    config,       \* the user's stored configuration (UserConfig)
    request,      \* the query of the legacy /api/wallpaper request
    currentDate,  \* the currentDate prop last handed to YearView
    scene,        \* what the last YearView call returned
    prevScene,    \* what the YearView call before it returned
    reads,        \* the instants the last YearView call read from the clock
    calls,        \* how many requests and repeated calls have been served
    response,     \* what the legacy /api/wallpaper route last answered
    millis,       \* the milliseconds elapsed since the hour of clock began
    rateLimitMap, \* the rate limiter's map: username -> [count, resetTime]
    pending,      \* the bag of requests of /api/[username] that wait at an await
    reply,        \* what /api/[username] last answered
    lifeStats,    \* a number of lived weeks and what lib/calcs makes of it
    pluginRun,    \* the plugin loop of the last request that reached it: what
                  \* it logged and the pluginRenderElements it collected
    refusedAt     \* history: per username, when its last request was answered
                  \* 429, if no request of that username passed the limiter since

vars == <<clock, zone, ticks, config, request, currentDate, scene, prevScene,
          reads, calls, response, millis, rateLimitMap, pending, reply, lifeStats,
          pluginRun, refusedAt>>

-----------------------------------------------------------------------------
(* Numbers: exact rationals, kept in lowest terms with a positive          *)
(* denominator.                                                            *)

Abs(x) == IF x < 0 THEN -x ELSE x

RECURSIVE Gcd(_, _)
Gcd(a, b) == IF b = 0 THEN a ELSE Gcd(b, a % b)

Q(n, d) ==
    LET g == Gcd(Abs(n), Abs(d))
        s == IF d < 0 THEN -1 ELSE 1
    IN  <<(s * n) \div g, (s * d) \div g>>

Num(n) == <<n, 1>>
Pct(p) == Q(p, 100)

QAdd(a, b) ==
    LET g == Gcd(a[2], b[2])
    IN  Q(a[1] * (b[2] \div g) + b[1] * (a[2] \div g), (a[2] \div g) * b[2])
QSub(a, b) == QAdd(a, <<-b[1], b[2]>>)
QMul(a, b) ==
    LET g1 == Gcd(Abs(a[1]), b[2])
        g2 == Gcd(Abs(b[1]), a[2])
    IN  <<(a[1] \div g1) * (b[1] \div g2), (a[2] \div g2) * (b[2] \div g1)>>
QDiv(a, k) == QMul(a, Q(1, k))
QScale(k, a) == QMul(Num(k), a)

QLt(a, b) ==
    LET g == Gcd(a[2], b[2])
    IN  a[1] * (b[2] \div g) < b[1] * (a[2] \div g)
QLe(a, b) == ~QLt(b, a)
QMin(a, b) == IF QLt(b, a) THEN b ELSE a
QMax(a, b) == IF QLt(a, b) THEN b ELSE a

\* Math.round of d / t * 100: the nearest integer, halves up
RoundPercent(d, t) == (200 * d + t) \div (2 * t)

-----------------------------------------------------------------------------
(* The platform's calendar: what JavaScript's Date gives for local dates.  *)

DateIsLeap(y) == (y % 4 = 0 /\ y % 100 # 0) \/ y % 400 = 0
DateDaysInYear(y) == IF DateIsLeap(y) THEN 366 ELSE 365

\* new Date(year, monthIndex + 1, 0).getDate(), monthIndex in 0..11
DateDaysInMonth(y, m) ==
    IF m = 1 THEN (IF DateIsLeap(y) THEN 29 ELSE 28)
    ELSE IF m \in {3, 5, 8, 10} THEN 30 ELSE 31

RECURSIVE DateDaysBeforeMonth(_, _)
DateDaysBeforeMonth(y, m) ==
    IF m = 0 THEN 0 ELSE DateDaysBeforeMonth(y, m - 1) + DateDaysInMonth(y, m - 1)

\* leap days in the years 1 .. y-1
LeapsBefore(y) == ((y - 1) \div 4) - ((y - 1) \div 100) + ((y - 1) \div 400)

\* whole days from 1970-01-01 to day doy of year y
DaysFromEpoch(y, doy) ==
    365 * (y - 1970) + (LeapsBefore(y) - LeapsBefore(1970)) + (doy - 1)

\* new Date(year, monthIndex, 1).getDay(): 0 = Sunday; 1970-01-01 was a Thursday
DateGetDay(y, m) == (4 + DaysFromEpoch(y, DateDaysBeforeMonth(y, m) + 1)) % 7

\* the instant h hours (|h| < 24) after t on the wall clock
AddHours(t, h) ==
    LET w == (t.doy - 1) * 24 + t.hour + h
        n == DateDaysInYear(t.year) * 24
    IN  IF w < 0
        THEN LET p == DateDaysInYear(t.year - 1) * 24 + w
             IN  [year |-> t.year - 1, doy |-> (p \div 24) + 1, hour |-> p % 24]
        ELSE IF w >= n
        THEN [year |-> t.year + 1, doy |-> ((w - n) \div 24) + 1, hour |-> (w - n) % 24]
        ELSE [year |-> t.year, doy |-> (w \div 24) + 1, hour |-> w % 24]

Before(a, b) ==
    \/ a.year < b.year
    \/ a.year = b.year /\ a.doy < b.doy
    \/ a.year = b.year /\ a.doy = b.doy /\ a.hour < b.hour

SameDate(a, b) == a.year = b.year /\ a.doy = b.doy

-----------------------------------------------------------------------------
(* The server's time zone.  Daylight saving time is in force on whole      *)
(* days, from DstStartDay up to DstEndDay in a northern zone and outside   *)
(* SouthDstEndDay .. SouthDstStartDay in a southern one.                   *)

DstStartDay == 69
DstEndDay == 307
SouthDstEndDay == 97
SouthDstStartDay == 279

ServerZones == {"UTC", "north", "south"}

DstOffset(z, doy) ==
    IF z = "north" THEN (IF DstStartDay <= doy /\ doy < DstEndDay THEN 1 ELSE 0)
    ELSE IF z = "south" THEN (IF doy < SouthDstEndDay \/ doy >= SouthDstStartDay THEN 1 ELSE 0)
    ELSE 0

StdOffset(z) == IF z = "north" THEN -5 ELSE IF z = "south" THEN 10 ELSE 0

\* Date.getTime() of the instant t, in hours since the epoch
GetTime(z, t) ==
    DaysFromEpoch(t.year, t.doy) * 24 + t.hour - StdOffset(z) - DstOffset(z, t.doy)

\* new Date(year, 0, 1).getTime(): local midnight of January 1
StartOfYearTime(z, y) == DaysFromEpoch(y, 1) * 24 - StdOffset(z) - DstOffset(z, 1)

-----------------------------------------------------------------------------
(* lib/calcs.  Every function reads the clock itself (new Date()); the     *)
(* instant it reads is the parameter t (and u for a second read).          *)

LIFE_EXPECTANCY_YEARS == 80
WEEKS_PER_YEAR == 52
TOTAL_WEEKS == LIFE_EXPECTANCY_YEARS * 52

\* birth is the UTC midnight of the date [year, doy] (new Date('YYYY-MM-DD'))
calculateWeeksLived(z, birth, t) ==
    LET diffInHours == GetTime(z, t) - DaysFromEpoch(birth.year, birth.doy) * 24
    IN  diffInHours \div (24 * 7)

\* The numbers of lib/calcs are IEEE doubles.  A positive double is written
\* [bits, exp]: the SIGNIFICAND bits of its significand, the first of them 1 and
\* worth 2^exp.
SIGNIFICAND == 53

\* the n bits of v < 2^n
Bits(v, n) == [k \in 1..n |-> (v \div 2^(n - k)) % 2]

\* the next count bits of rem / divisor (rem < divisor), and a last bit that
\* tells whether anything is left
RECURSIVE FractionBits(_, _, _)
FractionBits(rem, divisor, count) ==
    IF count = 0 THEN <<IF rem = 0 THEN 0 ELSE 1>>
    ELSE IF count < 9
         THEN Bits((rem * 2^count) \div divisor, count)
                  \o FractionBits((rem * 2^count) % divisor, divisor, 0)
         ELSE Bits((rem * 2^9) \div divisor, 9)
                  \o FractionBits((rem * 2^9) % divisor, divisor, count - 9)

\* the bits of a number one greater
PlusOne(bits) ==
    IF \A k \in 1..Len(bits) : bits[k] = 1
    THEN <<1>> \o [k \in 1..Len(bits) |-> 0]
    ELSE [k \in 1..Len(bits) |->
             IF \A j \in k..Len(bits) : bits[j] = 1 THEN 0
             ELSE IF \A j \in (k + 1)..Len(bits) : bits[j] = 1 THEN 1
             ELSE bits[k]]

\* bits rounded to a double, to the nearest with ties to the even significand
RoundToDouble(bits, exp) ==
    LET keep == SubSeq(bits, 1, SIGNIFICAND)
        up == /\ bits[SIGNIFICAND + 1] = 1
              /\ \/ keep[SIGNIFICAND] = 1
                 \/ \E k \in (SIGNIFICAND + 2)..Len(bits) : bits[k] = 1
    IN  IF ~up THEN [bits |-> keep, exp |-> exp]
        ELSE IF Len(PlusOne(keep)) > SIGNIFICAND
        THEN [bits |-> SubSeq(PlusOne(keep), 1, SIGNIFICAND), exp |-> exp + 1]
        ELSE [bits |-> PlusOne(keep), exp |-> exp]

\* n / d for positive integers n and d
DoubleQuotient(n, d) ==
    LET exp == CHOOSE e \in -14..14 :
                   /\ d * 2^(IF e > 0 THEN e ELSE 0) <= n * 2^(IF e < 0 THEN -e ELSE 0)
                   /\ n * 2^(IF e < 0 THEN -e ELSE 0) < 2 * d * 2^(IF e > 0 THEN e ELSE 0)
        divisor == d * 2^(IF exp > 0 THEN exp ELSE 0)
        rem == n * 2^(IF exp < 0 THEN -exp ELSE 0) - divisor
    IN  RoundToDouble(<<1>> \o FractionBits(rem, divisor, SIGNIFICAND), exp)

\* the bits of a natural number
RECURSIVE BitsOf(_)
BitsOf(n) == IF n = 0 THEN <<>> ELSE BitsOf(n \div 2) \o <<n % 2>>

\* the natural number of bits
RECURSIVE IntOf(_)
IntOf(bits) ==
    IF bits = <<>> THEN 0
    ELSE 2 * IntOf(SubSeq(bits, 1, Len(bits) - 1)) + bits[Len(bits)]

\* the bits of bits * c + carry
RECURSIVE TimesBits(_, _, _)
TimesBits(bits, c, carry) ==
    IF bits = <<>> THEN BitsOf(carry)
    ELSE IF Len(bits) < 9
    THEN BitsOf(IntOf(bits) * c + carry)
    ELSE TimesBits(SubSeq(bits, 1, Len(bits) - 9), c,
                   (IntOf(SubSeq(bits, Len(bits) - 8, Len(bits))) * c + carry) \div 2^9)
             \o Bits((IntOf(SubSeq(bits, Len(bits) - 8, Len(bits))) * c + carry) % 2^9, 9)

\* x * c for a positive integer c
DoubleTimes(x, c) ==
    RoundToDouble(TimesBits(x.bits, c, 0) \o <<0>>,
                  x.exp + Len(TimesBits(x.bits, c, 0)) - SIGNIFICAND)

\* Math.round(x), or Math.round(-x) when negative: the nearest integer, a tie
\* going up
MathRound(x, negative) ==
    LET whole == IF x.exp < 0 THEN 0 ELSE IntOf(SubSeq(x.bits, 1, x.exp + 1))
        half == IF x.exp < -1 THEN 0 ELSE x.bits[x.exp + 2]
        beyond == \/ x.exp < -1
                  \/ \E k \in (x.exp + 3)..SIGNIFICAND : x.bits[k] = 1
    IN  IF negative THEN -(whole + (IF half = 1 /\ beyond THEN 1 ELSE 0))
        ELSE whole + half

\* Math.round(weeksLived / TOTAL_WEEKS * 100 * 10) / 10, in tenths of a percent
calculateLifePercentage(weeksLived) ==
    IF weeksLived = 0 THEN 0
    ELSE MathRound(DoubleTimes(DoubleTimes(
                       DoubleQuotient(IF weeksLived < 0 THEN -weeksLived ELSE weeksLived,
                                      TOTAL_WEEKS), 100), 10),
                   weeksLived < 0)

calculateWeeksRemaining(weeksLived) ==
    LET remaining == TOTAL_WEEKS - weeksLived
    IN  IF remaining > 0 THEN remaining ELSE 0

\* getCurrentDayOfYear without the step from elapsed days to a day number
getCurrentDayOfYearFromZero(z, t) ==
    (GetTime(z, t) - StartOfYearTime(z, t.year)) \div 24

getCurrentDayOfYear(z, t) ==
    LET diffInHours == GetTime(z, t) - StartOfYearTime(z, t.year)
    IN  (diffInHours \div 24) + 1

isLeapYear(currentYear) ==
    (currentYear % 4 = 0 /\ currentYear % 100 # 0) \/ currentYear % 400 = 0

\* the total calculateDaysLeftInYear subtracts from
totalDaysInYear(currentYear) == IF isLeapYear(currentYear) THEN 366 ELSE 365

\* today is read at t, then getCurrentDayOfYear reads the clock again at u
calculateDaysLeftInYear(z, t, u) ==
    totalDaysInYear(t.year) - getCurrentDayOfYear(z, u)

\* the leap-year test without the century rule
isLeapYearEveryFourth(currentYear) == currentYear % 4 = 0

isLeapYearTotal(currentYear) ==
    (currentYear % 4 = 0 /\ currentYear % 100 # 0) \/ currentYear % 400 = 0

getTotalDaysInCurrentYear(t) == IF isLeapYearTotal(t.year) THEN 366 ELSE 365

-----------------------------------------------------------------------------
(* The enhanced YearView (app/api/wallpaper/year-view-enhanced.tsx).       *)

COLS_PER_ROW == 14
COLUMNS == 3
ROWS == 4
MaxDotSize == 20

\* startDayOffset without the case of a Sunday under Monday-first
startDayOffsetNoWrap(daysLayoutMode, isMondayFirst, currentYear) ==
    IF daysLayoutMode = "calendar"
    THEN IF isMondayFirst THEN DateGetDay(currentYear, 0) - 1
         ELSE DateGetDay(currentYear, 0)
    ELSE 0

\* the offset of January 1 in the Days layout
startDayOffset(daysLayoutMode, isMondayFirst, currentYear) ==
    IF daysLayoutMode = "calendar"
    THEN LET jan1 == DateGetDay(currentYear, 0)
         IN  IF isMondayFirst THEN (IF jan1 = 0 THEN 6 ELSE jan1 - 1) ELSE jan1
    ELSE 0

\* the colour of a dot of the Days layout
DaysDotColor(day, currentDayOfYear) ==
    IF day < currentDayOfYear THEN "past"
    ELSE IF day = currentDayOfYear THEN "current"
    ELSE "future"

\* the safe area with the configured paddings taken as they are
SafeAreaUntiered(width, height, layout) ==
    [SAFE_AREA_TOP |-> QScale(height, Pct(layout.topPadding)),
     SAFE_AREA_BOTTOM |-> QScale(height, Pct(layout.bottomPadding)),
     paddingX |-> QScale(width, Pct(layout.sidePadding))]

\* the safe area of the canvas: the top and bottom bands kept free and the
\* side padding, adapted to the aspect ratio
SafeArea(width, height, layout) ==
    LET aspectRatio == Q(height, width)
    IN  [SAFE_AREA_TOP |->
            IF QLt(Num(2), aspectRatio)
            THEN QScale(height, QMax(Pct(layout.topPadding), Pct(28)))
            ELSE QScale(height, Pct(layout.topPadding)),
         SAFE_AREA_BOTTOM |-> QScale(height, Pct(layout.bottomPadding)),
         paddingX |->
            QScale(width,
                   IF QLt(Q(21, 10), aspectRatio)
                   THEN QMin(Pct(layout.sidePadding), Pct(12))
                   ELSE IF QLt(Num(2), aspectRatio)
                        THEN QMin(Pct(layout.sidePadding), Pct(15))
                        ELSE Pct(layout.sidePadding))]

SAFE_HEIGHT(height, area) ==
    QSub(QSub(Num(height), area.SAFE_AREA_TOP), area.SAFE_AREA_BOTTOM)

availableWidth(width, area) == QSub(Num(width), QScale(2, area.paddingX))

\* the geometry of the Days layout (two weeks per row), in the order the code
\* computes it: the origin of the grid and of the stats line, ...
DaysPlaced(width, height, area, rows, dotSize, dotGap, gridWidth, gridHeight) ==
    LET statsFontSize == QMul(dotSize, Q(8, 10))
        statsMargin == QScale(2, dotSize)
        startY == QAdd(area.SAFE_AREA_TOP,
                       QDiv(QSub(QSub(QSub(SAFE_HEIGHT(height, area), gridHeight),
                                      statsMargin), statsFontSize), 2))
    IN  [SAFE_AREA_TOP |-> area.SAFE_AREA_TOP,
         SAFE_AREA_BOTTOM |-> area.SAFE_AREA_BOTTOM,
         paddingX |-> area.paddingX, rows |-> rows, dotSize |-> dotSize,
         dotGap |-> dotGap,
         startX |-> QAdd(area.paddingX,
                         QDiv(QSub(availableWidth(width, area), gridWidth), 2)),
         startY |-> startY,
         statsY |-> QAdd(QAdd(startY, gridHeight), statsMargin),
         statsFontSize |-> statsFontSize]

\* ... the extent of the grid, ...
DaysSpaced(width, height, area, rows, dotSize, dotGap) ==
    DaysPlaced(width, height, area, rows, dotSize, dotGap,
               QSub(QScale(COLS_PER_ROW, QAdd(dotSize, dotGap)), dotGap),
               QSub(QScale(rows, QAdd(dotSize, dotGap)), dotGap))

\* DaysSized with the whole of dotSpacing as the gap between dots
DaysSizedFullSpacing(width, height, layout, area, rows, dotSize) ==
    DaysSpaced(width, height, area, rows, dotSize,
               QMul(dotSize, Pct(layout.dotSpacing)))

\* ... the gap between dots, ...
DaysSized(width, height, layout, area, rows, dotSize) ==
    DaysSpaced(width, height, area, rows, dotSize,
               QMul(QMul(dotSize, Pct(layout.dotSpacing)), Q(1, 2)))

\* DaysFramed without the factor 0.7 that shrinks the dots
DaysFramedUnscaled(width, height, layout, area, rows) ==
    DaysSized(width, height, layout, area, rows,
              QMin(QDiv(availableWidth(width, area), COLS_PER_ROW),
                   QDiv(SAFE_HEIGHT(height, area), rows + 2)))

\* ... the dot size, ...
DaysFramed(width, height, layout, area, rows) ==
    DaysSized(width, height, layout, area, rows,
              QMul(QMin(QDiv(availableWidth(width, area), COLS_PER_ROW),
                        QDiv(SAFE_HEIGHT(height, area), rows + 2)),
                   Q(7, 10)))

\* DaysGeometry with the number of rows rounded down
DaysGeometryRowsFloor(width, height, layout, offset, totalDays) ==
    DaysFramed(width, height, layout, SafeArea(width, height, layout),
               (offset + totalDays) \div COLS_PER_ROW)

\* ... the safe area and the number of rows
DaysGeometry(width, height, layout, offset, totalDays) ==
    DaysFramed(width, height, layout, SafeArea(width, height, layout),
               (offset + totalDays + COLS_PER_ROW - 1) \div COLS_PER_ROW)

\* the dots of the Days layout, day 1 first
DaysDots(offset, totalDays, currentDayOfYear) ==
    [day \in 1..totalDays |->
        LET cellIndex == day - 1 + offset
        IN  [day |-> day, month |-> 0, cell |-> cellIndex,
             row |-> cellIndex \div COLS_PER_ROW, col |-> cellIndex % COLS_PER_ROW,
             color |-> DaysDotColor(day, currentDayOfYear)]]

getDaysInMonth(year, monthIndex) == DateDaysInMonth(year, monthIndex)

\* getFirstDayOfMonth with the Monday-first shift not wrapped into the week
getFirstDayOfMonthUnwrapped(isMondayFirst, year, monthIndex) ==
    IF isMondayFirst
    THEN DateGetDay(year, monthIndex) + 6
    ELSE DateGetDay(year, monthIndex)

getFirstDayOfMonth(isMondayFirst, year, monthIndex) ==
    IF isMondayFirst
    THEN LET day == DateGetDay(year, monthIndex)
         IN  IF day = 0 THEN 6 ELSE day - 1
    ELSE DateGetDay(year, monthIndex)

\* the cells of a month's 7x6 grid that hold a day
MonthPopulated(isMondayFirst, year, monthIndex) ==
    LET daysInMonth == getDaysInMonth(year, monthIndex)
        startDay == getFirstDayOfMonth(isMondayFirst, year, monthIndex)
    IN  {i \in 0..41 : i - startDay + 1 > 0 /\ i - startDay + 1 <= daysInMonth}

\* the colour of a dot of the Months layout
MonthsDotColor(globalDayCounter, currentDayOfYear) ==
    IF globalDayCounter < currentDayOfYear THEN "past"
    ELSE IF globalDayCounter = currentDayOfYear THEN "current"
    ELSE "future"

\* the dots of one month block, in the order of the loop over its 42 cells:
\* the cells that hold a day are the cells from startDay on, and the k-th of
\* them raises globalDayCounter to before + k
MonthDots(isMondayFirst, year, monthIndex, before, currentDayOfYear) ==
    LET startDay == getFirstDayOfMonth(isMondayFirst, year, monthIndex)
        n == Cardinality(MonthPopulated(isMondayFirst, year, monthIndex))
    IN  [k \in 1..n |->
            LET i == startDay + k - 1
            IN  [day |-> before + k, month |-> monthIndex, cell |-> i,
                 row |-> i \div 7, col |-> i % 7,
                 color |-> MonthsDotColor(before + k, currentDayOfYear)]]

\* the dots of the months 0 .. upTo-1, in the order the loop emits them
RECURSIVE MonthCells(_, _, _, _)
MonthCells(isMondayFirst, year, upTo, currentDayOfYear) ==
    IF upTo = 0 THEN <<>>
    ELSE LET earlier == MonthCells(isMondayFirst, year, upTo - 1, currentDayOfYear)
         IN  earlier \o MonthDots(isMondayFirst, year, upTo - 1, Len(earlier),
                                  currentDayOfYear)

\* the geometry of the Months layout (3 x 4 month blocks), in the order the
\* code computes it: the origin of the grid and of the stats line, the offset
\* that centres a month's dots in its cell, ...
MonthsPlaced(height, area, cellWidth, dotSize, dotGap, monthLabelSize, monthBlockHeight, gridHeight) ==
    LET rowGap == monthLabelSize
        statsFontSize == monthLabelSize
        statsMargin == QScale(3, rowGap)
        totalContentHeight == QAdd(QAdd(gridHeight, statsMargin), statsFontSize)
        calculatedStartY ==
            QAdd(area.SAFE_AREA_TOP,
                 QDiv(QSub(SAFE_HEIGHT(height, area), totalContentHeight), 2))
        startY == QMax(QMul(area.SAFE_AREA_TOP, Q(9, 10)), calculatedStartY)
        dotGridWidth == QAdd(QScale(7, dotSize), QScale(6, dotGap))
    IN  [SAFE_AREA_TOP |-> area.SAFE_AREA_TOP,
         SAFE_AREA_BOTTOM |-> area.SAFE_AREA_BOTTOM,
         paddingX |-> area.paddingX, cellWidth |-> cellWidth,
         dotSize |-> dotSize, dotGap |-> dotGap,
         monthLabelSize |-> monthLabelSize,
         monthBlockHeight |-> monthBlockHeight, rowGap |-> rowGap,
         startY |-> startY,
         statsY |-> QAdd(QAdd(startY, gridHeight), statsMargin),
         statsFontSize |-> statsFontSize,
         centerOffset |-> QMax(Num(0), QDiv(QSub(cellWidth, dotGridWidth), 2))]

\* MonthsStacked with a grid height that counts one row of month blocks less
MonthsStackedRowShort(height, area, cellWidth, dotSize, dotGap, monthLabelSize, monthBlockHeight) ==
    MonthsPlaced(height, area, cellWidth, dotSize, dotGap, monthLabelSize,
                 monthBlockHeight,
                 QAdd(QScale(ROWS - 1, monthBlockHeight),
                      QScale(ROWS - 1, monthLabelSize)))

\* ... the height of the grid (rowGap is monthLabelSize * 1.0), ...
MonthsStacked(height, area, cellWidth, dotSize, dotGap, monthLabelSize, monthBlockHeight) ==
    MonthsPlaced(height, area, cellWidth, dotSize, dotGap, monthLabelSize,
                 monthBlockHeight,
                 QAdd(QScale(ROWS, monthBlockHeight),
                      QScale(ROWS - 1, monthLabelSize)))

\* ... the height of a month block, ...
MonthsSpaced(height, area, cellWidth, dotSize, dotGap, monthLabelSize) ==
    MonthsStacked(height, area, cellWidth, dotSize, dotGap, monthLabelSize,
                  QAdd(QAdd(QAdd(monthLabelSize, dotSize), QScale(6, dotSize)),
                       QScale(5, dotGap)))

\* ... the gap between dots and the size of the month label, ...
MonthsSized(height, layout, area, cellWidth, dotSize) ==
    MonthsSpaced(height, area, cellWidth, dotSize,
                 QMul(dotSize, Pct(layout.dotSpacing)),
                 QMul(dotSize, Q(16, 10)))

\* ... the dot size, ...
MonthsFramed(height, layout, area, cellWidth) ==
    MonthsSized(height, layout, area, cellWidth,
                QMin(QMin(QMin(QDiv(cellWidth, 8),
                               QDiv(QDiv(SAFE_HEIGHT(height, area), ROWS), 9)),
                          QDiv(cellWidth, 7)),
                     Num(MaxDotSize)))

\* ... the safe area and the width of a month's cell
MonthsGeometry(width, height, layout) ==
    MonthsFramed(height, layout, SafeArea(width, height, layout),
                 QDiv(availableWidth(width, SafeArea(width, height, layout)),
                      COLUMNS))

-----------------------------------------------------------------------------
(* Overlay elements.  An element is a value as the stored configuration or *)
(* a plugin delivers it: null, undefined, a boolean, a number, a string or *)
(* an object with some properties.  The text of a string is a sequence of  *)
(* pieces, each a run of white space (" ") or a run of other characters.   *)

Null == [t |-> "null"]
Undefined == [t |-> "undefined"]
Bool(b) == [t |-> "boolean", v |-> b]
Number(n) == [t |-> "number", v |-> n]
Str(pieces) == [t |-> "string", v |-> pieces]
Object(properties) == [t |-> "object", v |-> properties]

\* reading a property of null or of undefined throws a TypeError
PropertyThrows(element) == element.t \in {"null", "undefined"}

\* element.name, of a value whose properties can be read
Get(element, name) ==
    IF element.t = "object" /\ name \in DOMAIN element.v
    THEN element.v[name]
    ELSE Undefined

\* the truth of a value in a condition
Truthy(value) ==
    CASE value.t = "boolean" -> value.v
      [] value.t = "number" -> value.v # 0
      [] value.t = "string" -> value.v # <<>>
      [] value.t = "object" -> TRUE
      [] OTHER -> FALSE

\* value || fallback
OrElse(value, fallback) == IF Truthy(value) THEN value ELSE fallback

\* value == null
IsNullish(value) == value.t \in {"null", "undefined"}

\* the decimal digits of a natural number
RECURSIVE Digits(_)
Digits(n) ==
    LET digit == <<"0", "1", "2", "3", "4", "5", "6", "7", "8", "9">>[(n % 10) + 1]
    IN  IF n < 10 THEN digit ELSE Digits(n \div 10) \o digit

\* String(value): the pieces of the text of a value
StringOf(value) ==
    CASE value.t = "string" -> value.v
      [] value.t = "number" -> <<Digits(value.v)>>
      [] value.t = "boolean" -> IF value.v THEN <<"true">> ELSE <<"false">>
      [] value.t = "object" -> <<"[object", " ", "Object]">>
      [] OTHER -> <<value.t>>

\* text.trim()
RECURSIVE TrimStart(_)
TrimStart(pieces) ==
    IF pieces # <<>> /\ Head(pieces) = " " THEN TrimStart(Tail(pieces)) ELSE pieces

RECURSIVE TrimEnd(_)
TrimEnd(pieces) ==
    IF pieces # <<>> /\ pieces[Len(pieces)] = " "
    THEN TrimEnd(SubSeq(pieces, 1, Len(pieces) - 1))
    ELSE pieces

Trim(pieces) == TrimEnd(TrimStart(pieces))

\* `${value}${unit}`: a length of a style
Length(value, unit) == [value |-> value, unit |-> unit]

\* the transform of a custom text element
TextTransform(align) ==
    IF align = Str(<<"center">>) THEN "translate(-50%, -50%)"
    ELSE IF align = Str(<<"right">>) THEN "translate(-100%, -50%)"
    ELSE "translateY(-50%)"

\* what the callback of textElements.map returns for the element at position
\* index: no primitive (<<>>) or one <div>
TextElementDiv(element, index) ==
    IF ~Truthy(Get(element, "visible")) \/ IsNullish(Get(element, "content"))
    THEN <<>>
    ELSE <<[kind |-> "textElement", index |-> index,
            left |-> Length(Get(element, "x"), "%"),
            top |-> Length(Get(element, "y"), "%"),
            fontSize |-> Length(OrElse(Get(element, "fontSize"), Number(16)), "px"),
            transform |-> TextTransform(OrElse(Get(element, "align"),
                                               Str(<<"left">>))),
            text |-> Trim(StringOf(Get(element, "content")))]>>

\* the transform of a plugin element
PluginTransform(align) ==
    IF align = Str(<<"center">>) THEN "translateX(-50%)"
    ELSE IF align = Str(<<"right">>) THEN "translateX(-100%)"
    ELSE "none"

\* what the callback of pluginElements.map returns for the element at position
\* index
PluginElementDiv(element, index) ==
    IF Get(element, "type") = Str(<<"text">>) /\ ~IsNullish(Get(element, "content"))
    THEN IF Trim(StringOf(OrElse(Get(element, "content"), Str(<<>>)))) = <<>>
         THEN <<>>
         ELSE <<[kind |-> "pluginElement", index |-> index,
                 left |-> Length(Get(element, "x"), "px"),
                 top |-> Length(Get(element, "y"), "px"),
                 fontSize |-> Length(OrElse(Get(element, "fontSize"), Number(16)),
                                     "px"),
                 transform |-> PluginTransform(Get(element, "align")),
                 maxWidth |-> IF Get(element, "maxWidth").t = "number"
                              THEN Length(Get(element, "maxWidth"), "px")
                              ELSE Length(Undefined, "px"),
                 text |-> Trim(StringOf(OrElse(Get(element, "content"),
                                               Str(<<>>))))]>>
    ELSE <<>>

\* textElements.map(callback) over the first count elements, with the results
\* that are null left out, as the renderer leaves them out
RECURSIVE TextElementDivs(_, _)
TextElementDivs(elements, count) ==
    IF count = 0
    THEN <<>>
    ELSE TextElementDivs(elements, count - 1)
             \o TextElementDiv(elements[count], count - 1)

\* pluginElements.map(callback), likewise
RECURSIVE PluginElementDivs(_, _)
PluginElementDivs(elements, count) ==
    IF count = 0
    THEN <<>>
    ELSE PluginElementDivs(elements, count - 1)
             \o PluginElementDiv(elements[count], count - 1)

\* whether one of the two maps throws: its callback reads a property of each
\* element
OverlaysThrow(textElements, pluginElements) ==
    \/ \E i \in 1..Len(textElements) : PropertyThrows(textElements[i])
    \/ \E i \in 1..Len(pluginElements) : PropertyThrows(pluginElements[i])

\* the stats footer: "{daysLeft}d left", the separator dot (written "." here),
\* "{percent}%"
StatsFooter(statsVisible, statsY, statsFontSize, daysLeft, currentDayOfYear, totalDays) ==
    IF statsVisible
    THEN <<[top |-> statsY, fontSize |-> statsFontSize,
            text |-> <<daysLeft, "d left", ".",
                       RoundPercent(currentDayOfYear, totalDays), "%">>]>>
    ELSE <<>>

\* what a call of YearView computed: the values of its locals, its geometry
\* and its stats footer
Rendered(props, currentYear, currentDayOfYear, daysLeft, totalDays, offset, g) ==
    [yearViewLayout |-> props.yearViewLayout,
     isMondayFirst |-> props.isMondayFirst,
     currentYear |-> currentYear, currentDayOfYear |-> currentDayOfYear,
     daysLeft |-> daysLeft, totalDays |-> totalDays,
     startDayOffset |-> offset, geometry |-> g,
     stats |-> StatsFooter(props.statsVisible, g.statsY, g.statsFontSize,
                           daysLeft, currentDayOfYear, totalDays),
     textElements |-> TextElementDivs(props.textElements, Len(props.textElements)),
     pluginElements |-> PluginElementDivs(props.pluginElements,
                                          Len(props.pluginElements))]

\* a call of a view that threw instead of returning
Thrown == [yearViewLayout |-> "thrown"]

\* YearView(props): date is the currentDate prop; r1 .. r4 are the instants of
\* the four clock reads of getCurrentDayOfYear, calculateDaysLeftInYear (two
\* reads) and getTotalDaysInCurrentYear.  The record holds what the call
\* computed; the dots it draws from these values are SceneDots.
YearView(props, date, z, r1, r2, r3, r4) ==
    LET currentYear == date.year
        currentDayOfYear == getCurrentDayOfYear(z, r1)
        daysLeft == calculateDaysLeftInYear(z, r2, r3)
        totalDays == getTotalDaysInCurrentYear(r4)
    IN  IF OverlaysThrow(props.textElements, props.pluginElements)
        THEN Thrown
        ELSE IF props.yearViewLayout = "days"
        THEN Rendered(props, currentYear, currentDayOfYear, daysLeft, totalDays,
                      startDayOffset(props.daysLayoutMode, props.isMondayFirst,
                                     currentYear),
                      DaysGeometry(props.width, props.height, props.layout,
                                   startDayOffset(props.daysLayoutMode,
                                                  props.isMondayFirst, currentYear),
                                   totalDays))
        ELSE Rendered(props, currentYear, currentDayOfYear, daysLeft, totalDays, 0,
                      MonthsGeometry(props.width, props.height, props.layout))

\* the dots of a scene, in the order YearView emits them
SceneDots(s) ==
    IF s.yearViewLayout = "days"
    THEN DaysDots(s.startDayOffset, s.totalDays, s.currentDayOfYear)
    ELSE MonthCells(s.isMondayFirst, s.currentYear, 12, s.currentDayOfYear)

\* the children with the plugin elements put below the custom text elements'
\* place: before them
SceneChildrenPluginsFirst(s) ==
    [k \in 1..Len(SceneDots(s)) |-> [kind |-> "dot", index |-> k - 1]]
        \o [k \in 1..Len(s.stats) |-> [kind |-> "stats", index |-> k - 1]]
        \o s.pluginElements
        \o s.textElements

\* the children of the element YearView returns, in the order of the document:
\* the dots, the stats footer, the custom text elements, the plugin elements
SceneChildren(s) ==
    [k \in 1..Len(SceneDots(s)) |-> [kind |-> "dot", index |-> k - 1]]
        \o [k \in 1..Len(s.stats) |-> [kind |-> "stats", index |-> k - 1]]
        \o s.textElements
        \o s.pluginElements

\* where a dot of a scene is drawn: its left and top edge on the canvas
DotLeft(s, dot) ==
    LET g == s.geometry
        pitch == QAdd(g.dotSize, g.dotGap)
    IN  IF s.yearViewLayout = "days"
        THEN QAdd(g.startX, QScale(dot.col, pitch))
        ELSE LET colIndex == dot.month % COLUMNS
                 x == QAdd(g.paddingX, QScale(colIndex, g.cellWidth))
             IN  QAdd(QAdd(x, g.centerOffset), QScale(dot.col, pitch))

DotTop(s, dot) ==
    LET g == s.geometry
        pitch == QAdd(g.dotSize, g.dotGap)
    IN  IF s.yearViewLayout = "days"
        THEN QAdd(g.startY, QScale(dot.row, pitch))
        ELSE LET rowIndex == dot.month \div COLUMNS
                 y == QAdd(g.startY,
                           QScale(rowIndex, QAdd(g.monthBlockHeight, g.rowGap)))
             IN  QAdd(QAdd(QAdd(y, g.monthLabelSize), g.dotSize),
                      QScale(dot.row, pitch))

-----------------------------------------------------------------------------
(* The /api/[username] route.                                              *)

\* getDateInTimezone: the wall clock of the user's time zone, tz hours ahead
\* of the server's
getDateInTimezone(t, tz) == AddHours(t, tz)

\* whether the value of a clock read changes within the hour after t
Boundary(z, t) ==
    LET u == AddHours(t, 1)
    IN  \/ u.year # t.year
        \/ getCurrentDayOfYear(z, u) # getCurrentDayOfYear(z, t)

\* the instants four successive clock reads can see from t on: all t, or t for
\* the first k and the next hour for the rest when a boundary lies between
ReadSequences(z, t) ==
    {<<t, t, t, t>>} \cup
    (IF Boundary(z, t)
     THEN {[i \in 1..4 |-> IF i <= k THEN t ELSE AddHours(t, 1)] : k \in 0..3}
     ELSE {})

\* the rate limiter of the route
RATE_LIMIT_MAX == 100
RATE_LIMIT_WINDOW == 60 * 1000

\* Date.now(), ms milliseconds into the hour t: a number of milliseconds since
\* the epoch, written as whole hours and the milliseconds beyond them
DateNow(z, t, ms) == [hours |-> GetTime(z, t), ms |-> ms]

\* now + delta
PlusMs(now, delta) ==
    [hours |-> now.hours + ((now.ms + delta) \div 3600000),
     ms |-> (now.ms + delta) % 3600000]

\* now > then
Later(now, then) ==
    \/ now.hours > then.hours
    \/ now.hours = then.hours /\ now.ms > then.ms

\* name.toLowerCase(), a name being a sequence of letters
toLowerCase(name) ==
    [i \in 1..Len(name) |->
        IF name[i] = "A" THEN "a" ELSE IF name[i] = "B" THEN "b" ELSE name[i]]

\* the rate limiter with the false answer given only once the count is above
\* RATE_LIMIT_MAX
checkRateLimitAbove(map, username, now) ==
    IF username \notin DOMAIN map \/ Later(now, map[username].resetTime)
    THEN [ok |-> TRUE,
          map |-> (username :> [count |-> 1, resetTime |-> PlusMs(now, RATE_LIMIT_WINDOW)])
                      @@ map]
    ELSE IF map[username].count > RATE_LIMIT_MAX
    THEN [ok |-> FALSE, map |-> map]
    ELSE [ok |-> TRUE, map |-> [map EXCEPT ![username].count = @ + 1]]

\* checkRateLimit(username) at the instant now: what it returns (ok) and the
\* map it leaves
checkRateLimit(map, username, now) ==
    IF username \notin DOMAIN map \/ Later(now, map[username].resetTime)
    THEN [ok |-> TRUE,
          map |-> (username :> [count |-> 1, resetTime |-> PlusMs(now, RATE_LIMIT_WINDOW)])
                      @@ map]
    ELSE IF map[username].count >= RATE_LIMIT_MAX
    THEN [ok |-> FALSE, map |-> map]
    ELSE [ok |-> TRUE, map |-> [map EXCEPT ![username].count = @ + 1]]

\* a birthDate that is not a date
MalformedBirthDate == [year |-> 0, doy |-> 0, text |-> "not-a-date"]

\* LifeView(props): its source is not part of the route; the scene records the
\* call and the birth date it was given
LifeViewCalled(props) == [yearViewLayout |-> "life", birthDate |-> props.birthDate]

\* new Response(body, { status }) and new ImageResponse(view, ...)
Response(body, status) == [status |-> status, body |-> body]
ImageResponse(view) == [status |-> 200, body |-> "image"]

-----------------------------------------------------------------------------
(* The YearView of before the customisation: the same two layouts with     *)
(* fixed colours, paddings and spacing.                                    *)

\* its safe zones and side padding, by the aspect ratio of the canvas
LegacySafeZones(width, height) ==
    [SAFE_AREA_TOP |->
        IF QLt(Num(2), Q(height, width))
        THEN QScale(height, Q(28, 100))
        ELSE QScale(height, Q(25, 100)),
     SAFE_AREA_BOTTOM |-> QScale(height, Q(15, 100)),
     paddingX |->
        QScale(width,
               IF QLt(Q(21, 10), Q(height, width))
               THEN Q(12, 100)
               ELSE IF QLt(Num(2), Q(height, width)) THEN Q(15, 100) ELSE Q(18, 100))]

\* its Days layout for dots of a size: the gap, the extent of the grid, the
\* stats line and the origin of the grid
LegacyDaysGrid(width, height, area, rows, dotSize) ==
    LET dotGap == QMul(dotSize, Q(35, 100))
        statsFontSize == QMul(dotSize, Q(8, 10))
        statsMargin == QScale(2, dotSize)
        gridWidth == QSub(QScale(COLS_PER_ROW, QAdd(dotSize, QMul(dotSize, Q(35, 100)))),
                          QMul(dotSize, Q(35, 100)))
        gridHeight == QSub(QScale(rows, QAdd(dotSize, QMul(dotSize, Q(35, 100)))),
                           QMul(dotSize, Q(35, 100)))
        startY == QAdd(area.SAFE_AREA_TOP,
                       QDiv(QSub(QSub(QSub(SAFE_HEIGHT(height, area), gridHeight),
                                      statsMargin), statsFontSize), 2))
    IN  [SAFE_AREA_TOP |-> area.SAFE_AREA_TOP,
         SAFE_AREA_BOTTOM |-> area.SAFE_AREA_BOTTOM,
         paddingX |-> area.paddingX, rows |-> rows, dotSize |-> dotSize,
         dotGap |-> dotGap,
         startX |-> QAdd(area.paddingX,
                         QDiv(QSub(availableWidth(width, area), gridWidth), 2)),
         startY |-> startY,
         statsY |-> QAdd(QAdd(startY, gridHeight), statsMargin),
         statsFontSize |-> statsFontSize]

\* its Months layout for month cells of a width and dots of a size
LegacyMonthsGrid(height, area, cellWidth, dotSize) ==
    LET dotGap == QMul(dotSize, Q(7, 10))
        monthLabelSize == QMul(dotSize, Q(16, 10))
        monthBlockHeight ==
            QAdd(QAdd(QAdd(QMul(dotSize, Q(16, 10)), dotSize), QScale(6, dotSize)),
                 QScale(5, QMul(dotSize, Q(7, 10))))
        gridHeight == QAdd(QScale(ROWS, monthBlockHeight),
                           QScale(ROWS - 1, QMul(dotSize, Q(16, 10))))
        startY ==
            QMax(QMul(area.SAFE_AREA_TOP, Q(9, 10)),
                 QAdd(area.SAFE_AREA_TOP,
                      QDiv(QSub(SAFE_HEIGHT(height, area),
                                QAdd(QAdd(gridHeight, QScale(3, monthLabelSize)),
                                     monthLabelSize)), 2)))
    IN  [SAFE_AREA_TOP |-> area.SAFE_AREA_TOP,
         SAFE_AREA_BOTTOM |-> area.SAFE_AREA_BOTTOM,
         paddingX |-> area.paddingX, cellWidth |-> cellWidth,
         dotSize |-> dotSize, dotGap |-> dotGap,
         monthLabelSize |-> monthLabelSize,
         monthBlockHeight |-> monthBlockHeight, rowGap |-> monthLabelSize,
         startY |-> startY,
         statsY |-> QAdd(QAdd(startY, gridHeight), QScale(3, monthLabelSize)),
         statsFontSize |-> monthLabelSize,
         centerOffset |->
            QMax(Num(0),
                 QDiv(QSub(cellWidth, QAdd(QScale(7, dotSize), QScale(6, dotGap))), 2))]

\* ... with the dot size of the Days layout
LegacyDaysLayout(width, height, area, rows) ==
    LegacyDaysGrid(width, height, area, rows,
                   QMul(QMin(QDiv(availableWidth(width, area), COLS_PER_ROW),
                             QDiv(SAFE_HEIGHT(height, area), rows + 2)),
                        Q(7, 10)))

\* ... with the dot size of the Months layout
LegacyMonthsLayout(height, area, cellWidth) ==
    LegacyMonthsGrid(height, area, cellWidth,
                     QMin(QMin(QDiv(cellWidth, 8),
                               QDiv(QDiv(SAFE_HEIGHT(height, area), ROWS), 9)),
                          Num(20)))

\* the cells left empty before January 1 in its Days layout
LegacyStartDayOffset(props, currentYear) ==
    IF props.yearViewLayout = "days" /\ props.daysLayoutMode = "calendar"
    THEN IF props.isMondayFirst
         THEN IF DateGetDay(currentYear, 0) = 0
              THEN 6
              ELSE DateGetDay(currentYear, 0) - 1
         ELSE DateGetDay(currentYear, 0)
    ELSE 0

\* the layout of its grid
LegacyLayout(props, offset, totalDays) ==
    IF props.yearViewLayout = "days"
    THEN LegacyDaysLayout(props.width, props.height,
                          LegacySafeZones(props.width, props.height),
                          (offset + totalDays + COLS_PER_ROW - 1) \div COLS_PER_ROW)
    ELSE LegacyMonthsLayout(props.height, LegacySafeZones(props.width, props.height),
                            QDiv(availableWidth(props.width,
                                                LegacySafeZones(props.width,
                                                                props.height)),
                                 COLUMNS))

\* what a call of it computed, as Rendered holds it for YearView: its stats
\* line is always drawn, and it has no text elements or plugin elements
LegacyDrawn(props, currentYear, currentDayOfYear, daysLeft, totalDays, offset, g) ==
    [legacy |-> TRUE,
     yearViewLayout |-> props.yearViewLayout,
     isMondayFirst |-> props.isMondayFirst,
     currentYear |-> currentYear, currentDayOfYear |-> currentDayOfYear,
     daysLeft |-> daysLeft, totalDays |-> totalDays,
     startDayOffset |-> offset, geometry |-> g,
     stats |-> <<[top |-> g.statsY, fontSize |-> g.statsFontSize,
                  text |-> <<daysLeft, "d left", ".",
                             RoundPercent(currentDayOfYear, totalDays), "%">>]>>,
     textElements |-> <<>>,
     pluginElements |-> <<>>]

\* YearView({ width, height, isMondayFirst, yearViewLayout, daysLayoutMode })
\* of before: r0 is the instant of its own clock read, r1 .. r4 those of the
\* reads of the functions of lib/calcs
LegacyYearView(props, z, r0, r1, r2, r3, r4) ==
    LegacyDrawn(props, r0.year, getCurrentDayOfYear(z, r1),
                calculateDaysLeftInYear(z, r2, r3), getTotalDaysInCurrentYear(r4),
                LegacyStartDayOffset(props, r0.year),
                LegacyLayout(props, LegacyStartDayOffset(props, r0.year),
                             getTotalDaysInCurrentYear(r4)))

-----------------------------------------------------------------------------
(* The legacy /api/wallpaper route: boxes for the weeks of a life or the   *)
(* days of a year.  The request is handled within one hour of the clock:   *)
(* all its clock reads see the instant t.                                  *)

\* the query has no birthDate parameter
NoBirthDate == [year |-> 0, doy |-> 0]

labelWidth == 60
bottomTextHeight == 100
topPadding == 60
sidePadding == 40
MaxBoxSize == 10

\* the daysPerMonth array of the year boxes
daysPerMonth(currentYear) ==
    LET leap == (currentYear % 4 = 0 /\ currentYear % 100 # 0) \/ currentYear % 400 = 0
    IN  <<31, IF leap THEN 29 ELSE 28, 31, 30, 31, 30, 31, 31, 30, 31, 30, 31>>

\* the box size, the gap and the origin of the grid
LegacyGeometry(width, height, columns, rows) ==
    LET boxSizeByWidth == Q((width - labelWidth - sidePadding * 2) * 10, columns * 13)
        boxSizeByHeight ==
            Q((height - bottomTextHeight - topPadding - 40) * 10, rows * 13)
        boxSize == QMin(QMin(boxSizeByWidth, boxSizeByHeight), Num(MaxBoxSize))
        gap == QMul(boxSize, Q(3, 10))
        gridWidth == QAdd(QScale(columns, boxSize), QScale(columns - 1, gap))
        gridHeight == QAdd(QScale(rows, boxSize), QScale(rows - 1, gap))
        startX == QAdd(Num(labelWidth),
                       QDiv(QSub(Num(width - labelWidth), gridWidth), 2))
        startY == QAdd(Num(topPadding),
                       QDiv(QSub(Num(height - bottomTextHeight - topPadding),
                                 gridHeight), 2))
    IN  [boxSize |-> boxSize, gap |-> gap, startX |-> startX, startY |-> startY]

\* new Date('YYYY-MM-DD').getFullYear(): the local year of the UTC midnight of
\* the date [year, doy]
getFullYear(z, date) ==
    AddHours([year |-> date.year, doy |-> date.doy, hour |-> 0],
             StdOffset(z) + DstOffset(z, date.doy)).year

\* GET /api/wallpaper: req is the query, t the instant of the request
LegacyRoute(req, z, t) ==
    IF req.viewMode = "life" /\ req.birthDate = NoBirthDate
    THEN [status |-> 400, body |-> "Missing birthDate parameter for Life View"]
    ELSE
    LET life == req.viewMode = "life" /\ req.birthDate # NoBirthDate
        weeksLived == IF life THEN calculateWeeksLived(z, req.birthDate, t) ELSE 0
        lifePercentage == IF life THEN calculateLifePercentage(weeksLived) ELSE 0
        birthYear == IF life THEN getFullYear(z, req.birthDate) ELSE t.year
        yearView == req.viewMode = "year"
        totalBoxesToShow ==
            IF yearView THEN getTotalDaysInCurrentYear(t) ELSE TOTAL_WEEKS
        boxesToHighlight ==
            IF yearView THEN getCurrentDayOfYear(z, t) ELSE weeksLived
        statsText ==
            IF yearView THEN <<calculateDaysLeftInYear(z, t, t), "d left">>
            ELSE <<lifePercentage, "% to 90">>
        columns == IF yearView THEN (totalBoxesToShow + 11) \div 12 ELSE 52
        rows == IF yearView THEN 12 ELSE 80
    IN  [status |-> 200, viewMode |-> IF yearView THEN "year" ELSE "life",
         weeksLived |-> weeksLived, lifePercentage |-> lifePercentage,
         currentYear |-> t.year, birthYear |-> birthYear,
         labels |-> IF yearView
                    THEN <<"Jan", "Feb", "Mar", "Apr", "May", "Jun", "Jul", "Aug",
                           "Sep", "Oct", "Nov", "Dec">>
                    ELSE [k \in 1..17 |-> Digits(birthYear + 5 * (k - 1))],
         totalBoxesToShow |-> totalBoxesToShow,
         boxesToHighlight |-> boxesToHighlight, statsText |-> statsText,
         columns |-> columns, rows |-> rows,
         geometry |-> LegacyGeometry(req.width, req.height, columns, rows)]

\* the boxes of the months 0 .. upTo-1 of the year boxes, in the order drawn
RECURSIVE LegacyYearBoxes(_, _, _, _)
LegacyYearBoxes(currentYear, columns, boxesToHighlight, upTo) ==
    IF upTo = 0 THEN <<>>
    ELSE LET earlier == LegacyYearBoxes(currentYear, columns, boxesToHighlight,
                                        upTo - 1)
             month == upTo - 1
             daysInMonth == daysPerMonth(currentYear)[month + 1]
         IN  earlier \o
             [k \in 1..daysInMonth |->
                LET day == k - 1
                    dayIndex == Len(earlier) + day
                IN  [index |-> dayIndex, row |-> month, col |-> day % columns,
                     isPast |-> dayIndex < boxesToHighlight]]

\* the boxes of the life view: 80 rows (years) of 52 weeks
LegacyLifeBoxes(boxesToHighlight) ==
    [k \in 1..(LIFE_EXPECTANCY_YEARS * WEEKS_PER_YEAR) |->
        LET year == (k - 1) \div WEEKS_PER_YEAR
            week == (k - 1) % WEEKS_PER_YEAR
            weekIndex == year * 52 + week
        IN  [index |-> weekIndex, row |-> year, col |-> week,
             isPast |-> weekIndex < boxesToHighlight]]

\* the y of a box of a response
LegacyBoxY(r, box) ==
    LET pitch == QAdd(r.geometry.boxSize, r.geometry.gap)
    IN  IF r.viewMode = "year"
        THEN QAdd(r.geometry.startY, QMul(QScale(box.row, pitch), Q(80, 12)))
        ELSE QAdd(r.geometry.startY, QScale(box.row, pitch))

\* the year labels of the life view with the index of the label for the row
LegacyLifeLabelsByIndex(r) ==
    [k \in 1..16 |->
        [row |-> (k - 1) * 5,
         top |-> QAdd(r.geometry.startY,
                      QScale(k - 1, QAdd(r.geometry.boxSize, r.geometry.gap))),
         text |-> r.labels[k]]]

\* the year labels of the life view, in the order drawn: one for each of the
\* years 0, 5, ..., 75
LegacyLifeLabels(r) ==
    [k \in 1..16 |->
        LET year == (k - 1) * 5
            labelIndex == year \div 5
        IN  [row |-> year,
             top |-> QAdd(r.geometry.startY,
                          QScale(year, QAdd(r.geometry.boxSize, r.geometry.gap))),
             text |-> r.labels[labelIndex + 1]]]

\* how a box of the legacy route is drawn: filled when past, outlined otherwise
LegacyBoxLook(isPast) ==
    [fill |-> IF isPast THEN "#FFFFFF" ELSE "transparent",
     stroke |-> IF isPast THEN "transparent" ELSE "#3a3a3a"]

\* the boxes of a response, in the order the route draws them
ResponseBoxes(r) ==
    IF r.viewMode = "year"
    THEN LegacyYearBoxes(r.currentYear, r.columns, r.boxesToHighlight, 12)
    ELSE LegacyLifeBoxes(r.boxesToHighlight)

\* the safe area of the YearView of the dot-grid route, which has no layout
\* prop: the same in its Days and its Months layout
DotGridSafeArea(width, height) ==
    LET aspectRatio == Q(height, width)
    IN  [SAFE_AREA_TOP |->
            IF QLt(Num(2), aspectRatio)
            THEN QScale(height, Pct(28))
            ELSE QScale(height, Pct(25)),
         SAFE_AREA_BOTTOM |-> QScale(height, Pct(15)),
         paddingX |->
            QScale(width,
                   IF QLt(Q(21, 10), aspectRatio) THEN Pct(12)
                   ELSE IF QLt(Num(2), aspectRatio) THEN Pct(15)
                   ELSE Pct(18))]

\* GET /api/wallpaper of the dot-grid route: the view it composes and, for the
\* Year view, its safe area.  Width and height default to 1170 and 2532 when
\* the query has none.
DotGridRoute(req) ==
    IF req.viewMode = "life" /\ req.birthDate # NoBirthDate
    THEN [status |-> 200, view |-> "life", birthDate |-> req.birthDate]
    ELSE [status |-> 200, view |-> "year", birthDate |-> req.birthDate,
          safeArea |-> DotGridSafeArea(req.width, req.height)]

-----------------------------------------------------------------------------
(* The state machine.                                                      *)

MaxTicks == 1
MaxCalls == 2

NoScene == [yearViewLayout |-> "none"]
NoResponse == [status |-> 0]
NoDate == [year |-> 0, doy |-> 0, hour |-> 0]
NoRequest == [viewMode |-> "none"]
NoReply == [status |-> 0]
NoPluginRun == [log |-> <<>>, pluginRenderElements |-> <<>>]

DefaultLayout ==
    [topPadding |-> 25, bottomPadding |-> 15, sidePadding |-> 18, dotSpacing |-> 70]

CenturyYears == {2000, 2100}
ClockDays(y) == {1, 196, 197, DateDaysInYear(y)}
ClockHours == {0, 23}
UserOffsets == {0, 9}

Instants(years) ==
    {[year |-> y, doy |-> d, hour |-> h] :
        y \in years, d \in 1..366, h \in ClockHours} \cap
    {i \in [year : years, doy : 1..366, hour : ClockHours] : i.doy \in ClockDays(i.year)}

\* the next sampled instant after t
NextInstant(t) ==
    LET later == {i \in Instants({t.year, t.year + 1}) : Before(t, i)}
    IN  CHOOSE i \in later : \A j \in later : i = j \/ Before(i, j)

Configs(sizes, layouts, statsChoices) ==
    {[width |-> wh[1], height |-> wh[2], isMondayFirst |-> mf,
      yearViewLayout |-> lm[1], daysLayoutMode |-> lm[2], layout |-> lay,
      statsVisible |-> sv, tz |-> tz, username |-> <<"a">>, viewMode |-> "year",
      birthDate |-> NoBirthDate, textElements |-> <<>>, plugins |-> <<>>] :
        wh \in sizes, mf \in BOOLEAN,
        lm \in {<<"months", "continuous">>, <<"days", "continuous">>,
                <<"days", "calendar">>},
        lay \in layouts, sv \in statsChoices, tz \in UserOffsets}

\* what does not change from one specification's start to another's
Idle ==
    /\ ticks = 0
    /\ currentDate = NoDate
    /\ scene = NoScene
    /\ prevScene = NoScene
    /\ reads = <<>>
    /\ calls = 0
    /\ response = NoResponse
    /\ millis = 0
    /\ rateLimitMap = <<>>
    /\ pending = EmptyBag
    /\ reply = NoReply
    /\ lifeStats = [weeksLived |-> 0]
    /\ pluginRun = NoPluginRun
    /\ refusedAt = <<>>

\* a user of the default device and layout: in the years 2023 and 2024 the
\* server in UTC and the user in either zone, or the server in a zone with
\* daylight saving time and the user in the same zone (weeks from Sunday); at
\* the century years 2000 and 2100 server and user in UTC
Init ==
    /\ \/ /\ clock \in Instants({2023, 2024})
          /\ zone = "UTC"
          /\ config \in Configs({<<1170, 2532>>}, {DefaultLayout}, {TRUE})
       \/ /\ clock \in Instants({2023, 2024})
          /\ zone \in ServerZones \ {"UTC"}
          /\ config \in {c \in Configs({<<1170, 2532>>}, {DefaultLayout}, {TRUE}) :
                            c.tz = 0 /\ ~c.isMondayFirst}
       \/ /\ clock \in Instants(CenturyYears)
          /\ zone = "UTC"
          /\ config \in {c \in Configs({<<1170, 2532>>}, {DefaultLayout}, {TRUE}) :
                            c.tz = 0}
    /\ request = NoRequest
    /\ Idle

\* time passes
Tick ==
    /\ ticks < MaxTicks
    /\ clock' = NextInstant(clock)
    /\ ticks' = ticks + 1
    /\ millis' = 0
    /\ UNCHANGED <<zone, config, request, currentDate, scene, prevScene, reads, calls,
                   response, rateLimitMap, pending, reply, lifeStats, pluginRun, refusedAt>>

\* an array of elements, the value for which Array.isArray is true
Array(elements) == [t |-> "array", v |-> elements]

\* the ids of the built-in plugins, the keys of availablePlugins
availablePlugins == {"quotes-plugin", "habit-tracker-plugin", "moon-phase-plugin"}

\* one pass of the loop that takes every entry for an enabled one
PluginIterationOfAll(index, pluginConfig) ==
    IF pluginConfig.pluginId \notin availablePlugins
            /\ pluginConfig.stored # "plugin"
    THEN [log |-> <<[index |-> index, pluginId |-> pluginConfig.pluginId,
                     event |-> "Loading user plugin"],
                    [index |-> index, pluginId |-> pluginConfig.pluginId,
                     event |-> CASE pluginConfig.stored = "error" -> "Error loading plugin"
                                 [] pluginConfig.stored = "noPlugin" -> "not found"
                                 [] OTHER -> "Failed to load user plugin"]>>
                   \o (IF pluginConfig.stored = "noPlugin"
                       THEN <<>>
                       ELSE <<[index |-> index, pluginId |-> pluginConfig.pluginId,
                               event |-> "not found"]>>),
          elements |-> <<>>]
    ELSE [log |-> (IF pluginConfig.pluginId \in availablePlugins
                   THEN <<>>
                   ELSE <<[index |-> index, pluginId |-> pluginConfig.pluginId,
                           event |-> "Loading user plugin"]>>)
                  \o (IF pluginConfig.execute.does = "none"
                      THEN <<[index |-> index, pluginId |-> pluginConfig.pluginId,
                              event |-> "no execute function"]>>
                      ELSE <<[index |-> index, pluginId |-> pluginConfig.pluginId,
                              event |-> "Executing plugin"],
                             [index |-> index, pluginId |-> pluginConfig.pluginId,
                              event |-> IF pluginConfig.execute.does = "throws"
                                        THEN "execution error"
                                        ELSE "returned"]>>),
          elements |-> IF pluginConfig.execute.does = "returns"
                          /\ pluginConfig.execute.value.t = "array"
                       THEN pluginConfig.execute.value.v
                       ELSE <<>>]

\* An entry of config.plugins together with what its plugin does in this
\* request: pluginId and enabled are the entry's; stored is what loading a
\* plugin that is not built in comes to ("rejects": getPlugin throws, "error":
\* it returns no data but an error, "codeThrows": running the stored code
\* throws, "noPlugin": the code defines no plugin, "plugin": it defines one);
\* execute is the plugin's execute: missing ("none"), throwing ("throws") or
\* returning a value ("returns").
\*
\* One pass of the loop over config.plugins, for the entry at index: the
\* events it logs and the elements it pushes
PluginIteration(index, pluginConfig) ==
    IF ~pluginConfig.enabled
    THEN [log |-> <<[index |-> index, pluginId |-> pluginConfig.pluginId,
                     event |-> "disabled, skipping"]>>,
          elements |-> <<>>]
    ELSE IF pluginConfig.pluginId \notin availablePlugins
            /\ pluginConfig.stored # "plugin"
    THEN [log |-> <<[index |-> index, pluginId |-> pluginConfig.pluginId,
                     event |-> "Loading user plugin"],
                    [index |-> index, pluginId |-> pluginConfig.pluginId,
                     event |-> CASE pluginConfig.stored = "error" -> "Error loading plugin"
                                 [] pluginConfig.stored = "noPlugin" -> "not found"
                                 [] OTHER -> "Failed to load user plugin"]>>
                   \o (IF pluginConfig.stored = "noPlugin"
                       THEN <<>>
                       ELSE <<[index |-> index, pluginId |-> pluginConfig.pluginId,
                               event |-> "not found"]>>),
          elements |-> <<>>]
    ELSE [log |-> (IF pluginConfig.pluginId \in availablePlugins
                   THEN <<>>
                   ELSE <<[index |-> index, pluginId |-> pluginConfig.pluginId,
                           event |-> "Loading user plugin"]>>)
                  \o (IF pluginConfig.execute.does = "none"
                      THEN <<[index |-> index, pluginId |-> pluginConfig.pluginId,
                              event |-> "no execute function"]>>
                      ELSE <<[index |-> index, pluginId |-> pluginConfig.pluginId,
                              event |-> "Executing plugin"],
                             [index |-> index, pluginId |-> pluginConfig.pluginId,
                              event |-> IF pluginConfig.execute.does = "throws"
                                        THEN "execution error"
                                        ELSE "returned"]>>),
          elements |-> IF pluginConfig.execute.does = "returns"
                          /\ pluginConfig.execute.value.t = "array"
                       THEN pluginConfig.execute.value.v
                       ELSE <<>>]

\* the loop's log and pluginRenderElements after one more pass
PluginPassed(run, pass) ==
    [log |-> run.log \o pass.log,
     pluginRenderElements |-> run.pluginRenderElements \o pass.elements]

\* the loop over config.plugins after its first n passes
RECURSIVE ExecutePlugins(_, _)
ExecutePlugins(plugins, n) ==
    IF n = 0
    THEN [log |-> <<>>, pluginRenderElements |-> <<>>]
    ELSE PluginPassed(ExecutePlugins(plugins, n - 1), PluginIteration(n, plugins[n]))

\* viewProps, the props of the views: the stored configuration's and the
\* plugins' elements
viewProps(stored, run) ==
    [pluginElements |-> run.pluginRenderElements] @@ stored

\* GET /api/[username] from the fetch of the configuration on, for a request
\* that passed the rate limiter: rs are the instants its clock reads see
Answer(username, rs) ==
    IF username # config.username
    THEN /\ reply' = Response("User configuration not found.", 404)
         /\ UNCHANGED <<clock, currentDate, scene, prevScene, reads, pluginRun>>
    ELSE IF config.birthDate = NoBirthDate /\ config.viewMode = "life"
    THEN /\ reply' = Response("Birthdate is required for Life View.", 400)
         /\ UNCHANGED <<clock, currentDate, scene, prevScene, reads, pluginRun>>
    ELSE IF config.width = 0 \/ config.height = 0
    THEN /\ reply' = Response("Device configuration is required.", 400)
         /\ UNCHANGED <<clock, currentDate, scene, prevScene, reads, pluginRun>>
    ELSE /\ currentDate' = getDateInTimezone(clock, config.tz)
         /\ pluginRun' = ExecutePlugins(config.plugins, Len(config.plugins))
         /\ IF config.viewMode = "life"
            THEN /\ scene' = LifeViewCalled(viewProps(config, pluginRun'))
                 /\ reads' = <<>>
                 /\ clock' = clock
            ELSE /\ scene' = YearView(viewProps(config, pluginRun'), currentDate', zone,
                                      rs[1], rs[2], rs[3], rs[4])
                 /\ reads' = rs
                 /\ clock' = rs[4]
         /\ prevScene' = NoScene
         /\ reply' = IF scene' = Thrown
                      THEN Response("Internal server error: ", 500)
                      ELSE ImageResponse(scene')

\* GET /api/[username], served without another request in between
RouteGetOf(rawUsername) ==
    /\ calls < MaxCalls
    /\ calls' = calls + 1
    /\ IF toLowerCase(rawUsername) = <<>>
       THEN /\ reply' = Response("Username is required", 400)
            /\ UNCHANGED <<rateLimitMap, clock, currentDate, scene, prevScene, reads,
                           pluginRun, refusedAt>>
       ELSE IF ~checkRateLimit(rateLimitMap, toLowerCase(rawUsername),
                               DateNow(zone, clock, millis)).ok
       THEN /\ reply' = Response("Rate limit exceeded. Please try again later.", 429)
            /\ refusedAt' = (toLowerCase(rawUsername) :> DateNow(zone, clock, millis))
                              @@ refusedAt
            /\ UNCHANGED <<rateLimitMap, clock, currentDate, scene, prevScene, reads,
                           pluginRun>>
       ELSE /\ rateLimitMap' = checkRateLimit(rateLimitMap, toLowerCase(rawUsername),
                                              DateNow(zone, clock, millis)).map
            /\ refusedAt' = [name \in DOMAIN refusedAt \ {toLowerCase(rawUsername)}
                                 |-> refusedAt[name]]
            /\ \E rs \in ReadSequences(zone, clock) :
                   Answer(toLowerCase(rawUsername), rs)
    /\ UNCHANGED <<zone, ticks, config, request, response, millis, pending, lifeStats>>

\* GET /api/[username] by the user of the stored configuration
RouteGet == RouteGetOf(config.username)

\* YearView called once more with the props of the call before
YearViewAgain ==
    /\ scene.yearViewLayout \in {"days", "months"}
    /\ calls < MaxCalls
    /\ calls' = calls + 1
    /\ \E rs \in ReadSequences(zone, clock) :
        /\ scene' = YearView(viewProps(config, pluginRun), currentDate, zone,
                             rs[1], rs[2], rs[3], rs[4])
        /\ prevScene' = scene
        /\ reads' = rs
        /\ clock' = rs[4]
    /\ UNCHANGED <<zone, ticks, config, request, currentDate, response, millis,
                   rateLimitMap, pending, reply, lifeStats, pluginRun, refusedAt>>

\* GET /api/wallpaper (the legacy route)
LegacyGet ==
    /\ request # NoRequest
    /\ response' = LegacyRoute(request, zone, clock)
    /\ UNCHANGED <<clock, zone, ticks, config, request, currentDate, scene,
                   prevScene, reads, calls, millis, rateLimitMap, pending, reply,
                   lifeStats, pluginRun, refusedAt>>

\* the YearView of before is called with the width, height, isMondayFirst,
\* yearViewLayout and daysLayoutMode of the call of YearView before
LegacyYearViewCalled ==
    /\ scene.yearViewLayout \in {"days", "months"}
    /\ "legacy" \notin DOMAIN scene
    /\ calls < MaxCalls
    /\ calls' = calls + 1
    /\ \E rs \in ReadSequences(zone, clock) :
        /\ scene' = LegacyYearView(config, zone, clock, rs[1], rs[2], rs[3], rs[4])
        /\ prevScene' = scene
        /\ reads' = rs
        /\ clock' = rs[4]
    /\ UNCHANGED <<zone, ticks, config, request, currentDate, response, millis,
                   rateLimitMap, pending, reply, lifeStats, pluginRun, refusedAt>>

\* GET /api/wallpaper (the dot-grid route)
DotGridGet ==
    /\ request # NoRequest
    /\ response' = DotGridRoute(request)
    /\ UNCHANGED <<clock, zone, ticks, config, request, currentDate, scene,
                   prevScene, reads, calls, millis, rateLimitMap, pending, reply,
                   lifeStats, pluginRun, refusedAt>>

\* the usernames requests arrive with: none, the user of the stored
\* configuration (also written with a capital), and another user
RawUsernames == {<<>>, <<"a">>, <<"A">>, <<"b">>}

MaxPending == 2
MaxOtherCalls == 1

\* a request arrives: GET runs to its first await (await params).  Requests
\* for a user without a configuration are taken while that user's counter is
\* below MaxOtherCalls.
GetReceived ==
    /\ BagCardinality(pending) < MaxPending
    /\ \E raw \in RawUsernames :
        /\ toLowerCase(raw) # config.username /\ toLowerCase(raw) \in DOMAIN rateLimitMap
               => rateLimitMap[toLowerCase(raw)].count < MaxOtherCalls
        /\ pending' = pending (+) SetToBag({[rawUsername |-> raw, at |-> "params"]})
    /\ UNCHANGED <<clock, zone, ticks, config, request, currentDate, scene, prevScene,
                   reads, calls, response, millis, rateLimitMap, reply, lifeStats,
                   pluginRun, refusedAt>>

\* a request resumes after await params: the check of the username and the
\* rate limiter, up to the fetch of the configuration (the next await)
GetLimited ==
    /\ \E r \in BagToSet(pending) :
        /\ r.at = "params"
        /\ IF toLowerCase(r.rawUsername) = <<>>
           THEN /\ reply' = Response("Username is required", 400)
                /\ pending' = pending (-) SetToBag({r})
                /\ UNCHANGED <<rateLimitMap, refusedAt>>
           ELSE IF ~checkRateLimit(rateLimitMap, toLowerCase(r.rawUsername),
                                   DateNow(zone, clock, millis)).ok
           THEN /\ reply' = Response("Rate limit exceeded. Please try again later.", 429)
                /\ pending' = pending (-) SetToBag({r})
                /\ refusedAt' = (toLowerCase(r.rawUsername) :> DateNow(zone, clock, millis))
                                  @@ refusedAt
                /\ UNCHANGED rateLimitMap
           ELSE /\ rateLimitMap' = checkRateLimit(rateLimitMap, toLowerCase(r.rawUsername),
                                                  DateNow(zone, clock, millis)).map
                /\ pending' = (pending (-) SetToBag({r}))
                                  (+) SetToBag({[r EXCEPT !.at = "config"]})
                /\ refusedAt' = [name \in DOMAIN refusedAt \ {toLowerCase(r.rawUsername)}
                                     |-> refusedAt[name]]
                /\ UNCHANGED reply
    /\ UNCHANGED <<clock, zone, ticks, config, request, currentDate, scene, prevScene,
                   reads, calls, response, millis, lifeStats, pluginRun>>

\* the fetch of the configuration returns: the rest of GET
GetFetched ==
    /\ \E r \in BagToSet(pending) :
        /\ r.at = "config"
        /\ pending' = pending (-) SetToBag({r})
        /\ \E rs \in ReadSequences(zone, clock) :
               Answer(toLowerCase(r.rawUsername), rs)
    /\ UNCHANGED <<zone, ticks, config, request, calls, response, millis, rateLimitMap,
                   lifeStats, refusedAt>>

\* time passes within the hour: to the last millisecond of a window opened at
\* the start of the hour, then to the first millisecond after it
Elapse ==
    /\ millis <= RATE_LIMIT_WINDOW
    /\ millis' = IF millis < RATE_LIMIT_WINDOW
                 THEN RATE_LIMIT_WINDOW
                 ELSE RATE_LIMIT_WINDOW + 1
    /\ UNCHANGED <<clock, zone, ticks, config, request, currentDate, scene, prevScene,
                   reads, calls, response, rateLimitMap, pending, reply, lifeStats,
                   pluginRun, refusedAt>>

\* calculateWeeksRemaining and calculateLifePercentage applied to a number of
\* lived weeks
Calculate ==
    /\ DOMAIN lifeStats = {"weeksLived"}
    /\ lifeStats' =
           [weeksLived |-> lifeStats.weeksLived,
            weeksRemaining |-> calculateWeeksRemaining(lifeStats.weeksLived),
            lifePercentage |-> calculateLifePercentage(lifeStats.weeksLived)]
    /\ UNCHANGED <<clock, zone, ticks, config, request, currentDate, scene, prevScene,
                   reads, calls, response, millis, rateLimitMap, pending, reply,
                   pluginRun, refusedAt>>

Next == Tick \/ RouteGet \/ YearViewAgain

Spec == Init /\ [][Next]_vars

\* the devices and layout ratios of the geometry checks: ratios at the ends of
\* their range [0, 0.5] (dotSpacing up to its default 0.7) and at the defaults
GeomSizes ==
    {<<1170, 2532>>, <<1080, 2200>>, <<750, 1334>>, <<1620, 2160>>, <<2000, 1000>>,
     <<100, 300>>}
GeomLayouts ==
    {DefaultLayout,
     [topPadding |-> 0, bottomPadding |-> 0, sidePadding |-> 0, dotSpacing |-> 0],
     [topPadding |-> 0, bottomPadding |-> 0, sidePadding |-> 0, dotSpacing |-> 70],
     [topPadding |-> 50, bottomPadding |-> 50, sidePadding |-> 50, dotSpacing |-> 70],
     [topPadding |-> 50, bottomPadding |-> 0, sidePadding |-> 18, dotSpacing |-> 50],
     [topPadding |-> 10, bottomPadding |-> 50, sidePadding |-> 0, dotSpacing |-> 70]}

\* the first hour of years whose January 1 falls on a Sunday, a Monday, a
\* Wednesday and a Friday
GeomYears == {2023, 2024, 2025, 2027}

InitGeom ==
    /\ clock \in {i \in Instants(GeomYears) : i.doy = 1 /\ i.hour = 0}
    /\ zone = "UTC"
    /\ config \in {c \in Configs(GeomSizes, GeomLayouts, BOOLEAN) : c.tz = 0}
    /\ request = NoRequest
    /\ Idle

\* renderings within one hour of the clock
NextGeom == RouteGet \/ YearViewAgain

SpecGeom == InitGeom /\ [][NextGeom]_vars

\* the first hour of every year from 2000 to 2027, which begin on every day of
\* the week as leap years and as other years, and of 2100; the default device
\* and layout, both week starts, both layouts and both modes of the Days layout
InitYears ==
    /\ clock \in {[year |-> y, doy |-> 1, hour |-> 0] : y \in 2000..2027 \cup {2100}}
    /\ zone = "UTC"
    /\ config \in {c \in Configs({<<1170, 2532>>}, {DefaultLayout}, {TRUE}) : c.tz = 0}
    /\ request = NoRequest
    /\ Idle

SpecYears == InitYears /\ [][NextGeom]_vars

\* the queries of the legacy route: no birth date, or a birth date long ago,
\* recent, or still to come
BirthDates ==
    {NoBirthDate, [year |-> 1940, doy |-> 1], [year |-> 1990, doy |-> 15],
     [year |-> 2024, doy |-> 190], [year |-> 2030, doy |-> 1]}

InitLegacy ==
    /\ clock \in Instants({2024})
    /\ zone \in ServerZones
    /\ config \in {c \in Configs({<<1170, 2532>>}, {DefaultLayout}, {TRUE}) :
                      c.tz = 0 /\ c.yearViewLayout = "months" /\ ~c.isMondayFirst}
    /\ request \in [viewMode : {"year", "life"}, birthDate : BirthDates,
                    width : {1170, 750}, height : {2532, 1334}]
    /\ Idle

NextLegacy == Tick \/ LegacyGet

SpecLegacy == InitLegacy /\ [][NextLegacy]_vars

\* custom text elements as a configuration can store them: shown at the left,
\* centred with padded content, at the right, without align, hidden, with null
\* content, with empty content, without x, and entries that are no objects
TextElementSamples ==
    <<Object([id |-> Str(<<"t1">>), visible |-> Bool(TRUE), content |-> Str(<<"hi">>),
             x |-> Number(50), y |-> Number(10), align |-> Str(<<"left">>)]),
     Object([id |-> Str(<<"t2">>), visible |-> Bool(TRUE),
             content |-> Str(<<" ", "hi", " ", "there", " ">>),
             x |-> Number(50), y |-> Number(50), align |-> Str(<<"center">>)]),
     Object([id |-> Str(<<"t3">>), visible |-> Bool(TRUE), content |-> Str(<<"hi">>),
             x |-> Number(90), y |-> Number(95), align |-> Str(<<"right">>)]),
     Object([id |-> Str(<<"t4">>), visible |-> Bool(TRUE), content |-> Str(<<"hi">>),
             x |-> Number(5), y |-> Number(5)]),
     Object([id |-> Str(<<"t5">>), visible |-> Bool(FALSE), content |-> Str(<<"hi">>),
             x |-> Number(50), y |-> Number(10), align |-> Str(<<"left">>)]),
     Object([id |-> Str(<<"t6">>), visible |-> Bool(TRUE), content |-> Null,
             x |-> Number(50), y |-> Number(10), align |-> Str(<<"left">>)]),
     Object([id |-> Str(<<"t7">>), visible |-> Bool(TRUE), content |-> Str(<<>>),
             x |-> Number(50), y |-> Number(10), align |-> Str(<<"left">>)]),
     Object([id |-> Str(<<"t8">>), visible |-> Bool(TRUE), content |-> Str(<<"hi">>),
             y |-> Number(10), align |-> Str(<<"left">>)]),
     Null,
     Number(7)>>

\* elements as plugins can return them: text without align, centred with a
\* maxWidth, at the right, of white space only; a rect, a circle, a line; text
\* without y; and entries that are no objects
PluginElementSamples ==
    <<Object([type |-> Str(<<"text">>), content |-> Str(<<"quote">>),
             x |-> Number(100), y |-> Number(200)]),
     Object([type |-> Str(<<"text">>), content |-> Str(<<"quote">>),
             x |-> Number(585), y |-> Number(300), align |-> Str(<<"center">>),
             maxWidth |-> Number(400)]),
     Object([type |-> Str(<<"text">>), content |-> Str(<<"quote">>),
             x |-> Number(1000), y |-> Number(400), align |-> Str(<<"right">>)]),
     Object([type |-> Str(<<"text">>), content |-> Str(<<" ">>),
             x |-> Number(100), y |-> Number(200)]),
     Object([type |-> Str(<<"rect">>), x |-> Number(10), y |-> Number(20),
             width |-> Number(30), height |-> Number(40)]),
     Object([type |-> Str(<<"circle">>), x |-> Number(10), y |-> Number(20),
             radius |-> Number(5)]),
     Object([type |-> Str(<<"line">>), x1 |-> Number(0), y1 |-> Number(0),
             x2 |-> Number(10), y2 |-> Number(10)]),
     Object([type |-> Str(<<"text">>), content |-> Str(<<"quote">>),
             x |-> Number(100)]),
     Null,
     Str(<<"quote">>)>>

\* the lists of at most n of the samples, in the order of the samples
Lists(samples, n) ==
    {[k \in 1..Cardinality(chosen) |->
         samples[CHOOSE i \in chosen : Cardinality({j \in chosen : j < i}) = k - 1]] :
        chosen \in {c \in SUBSET DOMAIN samples : Cardinality(c) <= n}}

MaxOverlays == 2

\* the entry of an enabled built-in plugin whose execute returns value
BuiltIn(value) ==
    [pluginId |-> "quotes-plugin", enabled |-> TRUE, stored |-> "plugin",
     execute |-> [does |-> "returns", value |-> value]]

\* a user of the default device with overlays: up to MaxOverlays elements of
\* one kind and up to one of the other
InitOverlay ==
    /\ clock = [year |-> 2024, doy |-> 196, hour |-> 0]
    /\ zone = "UTC"
    /\ \E base \in {c \in Configs({<<1170, 2532>>}, {DefaultLayout}, BOOLEAN) :
                        c.tz = 0 /\ ~c.isMondayFirst /\ c.daysLayoutMode = "continuous"},
          texts \in Lists(TextElementSamples, MaxOverlays),
          plugins \in Lists(PluginElementSamples, MaxOverlays) :
            /\ Len(texts) <= 1 \/ Len(plugins) <= 1
            /\ config = [base EXCEPT !.textElements = texts,
                                     !.plugins = <<BuiltIn(Array(plugins))>>]
    /\ request = NoRequest
    /\ Idle

SpecOverlay == InitOverlay /\ [][NextGeom]_vars

\* the devices of the geometry checks with the defaults of YearView (layout
\* ratios 0.25 / 0.15 / 0.18 / 0.7, stats shown, no text or plugin elements),
\* at the first hour of day 1 and of day 196 of the years of the geometry
\* checks, server and user in UTC
InitRefine ==
    /\ clock \in {i \in Instants(GeomYears) : i.doy \in {1, 196} /\ i.hour = 0}
    /\ zone = "UTC"
    /\ config \in {c \in Configs(GeomSizes, {DefaultLayout}, {TRUE}) : c.tz = 0}
    /\ request = NoRequest
    /\ Idle

NextRefine == RouteGet \/ LegacyYearViewCalled

SpecRefine == InitRefine /\ [][NextRefine]_vars

\* entries of config.plugins: built-in plugins and plugins of users, enabled
\* and disabled, that return arrays of elements, that cannot be loaded (an
\* error returned, a rejected fetch, code that throws, code without a plugin),
\* that have no execute, whose execute throws, and whose execute returns no
\* array (undefined, a single element); one built-in plugin is entered twice.
\* The elements returned are texts that the view draws.
PluginConfigSamples ==
    <<BuiltIn(Array(<<PluginElementSamples[1]>>)),
      [pluginId |-> "habit-tracker-plugin", enabled |-> FALSE, stored |-> "plugin",
       execute |-> [does |-> "returns", value |-> Array(<<PluginElementSamples[3]>>)]],
      [pluginId |-> "u-error", enabled |-> TRUE, stored |-> "error",
       execute |-> [does |-> "none"]],
      [pluginId |-> "u-array", enabled |-> TRUE, stored |-> "plugin",
       execute |-> [does |-> "returns",
                    value |-> Array(<<PluginElementSamples[2], PluginElementSamples[3]>>)]],
      [pluginId |-> "u-rejects", enabled |-> TRUE, stored |-> "rejects",
       execute |-> [does |-> "none"]],
      [pluginId |-> "u-code-throws", enabled |-> TRUE, stored |-> "codeThrows",
       execute |-> [does |-> "none"]],
      [pluginId |-> "u-no-plugin", enabled |-> TRUE, stored |-> "noPlugin",
       execute |-> [does |-> "none"]],
      [pluginId |-> "u-no-execute", enabled |-> TRUE, stored |-> "plugin",
       execute |-> [does |-> "none"]],
      [pluginId |-> "u-throws", enabled |-> TRUE, stored |-> "plugin",
       execute |-> [does |-> "throws"]],
      [pluginId |-> "moon-phase-plugin", enabled |-> TRUE, stored |-> "plugin",
       execute |-> [does |-> "throws"]],
      [pluginId |-> "u-undefined", enabled |-> TRUE, stored |-> "plugin",
       execute |-> [does |-> "returns", value |-> Undefined]],
      [pluginId |-> "u-element", enabled |-> TRUE, stored |-> "plugin",
       execute |-> [does |-> "returns", value |-> PluginElementSamples[2]]],
      [pluginId |-> "u-disabled", enabled |-> FALSE, stored |-> "error",
       execute |-> [does |-> "none"]],
      BuiltIn(Array(<<PluginElementSamples[1]>>)),
      [pluginId |-> "u-last", enabled |-> TRUE, stored |-> "plugin",
       execute |-> [does |-> "returns", value |-> Array(<<PluginElementSamples[2]>>)]],
      [pluginId |-> "u-empty", enabled |-> TRUE, stored |-> "plugin",
       execute |-> [does |-> "returns", value |-> Array(<<>>)]]>>

MaxPlugins == 3

\* a user of the default device with up to MaxPlugins plugins
InitPlugins ==
    /\ clock = [year |-> 2024, doy |-> 196, hour |-> 0]
    /\ zone = "UTC"
    /\ \E base \in {c \in Configs({<<1170, 2532>>}, {DefaultLayout}, {TRUE}) :
                        /\ c.tz = 0 /\ ~c.isMondayFirst
                        /\ c.yearViewLayout = "months"},
          plugins \in Lists(PluginConfigSamples, MaxPlugins) :
            config = [base EXCEPT !.plugins = plugins]
    /\ request = NoRequest
    /\ Idle

SpecPlugins == InitPlugins /\ [][NextGeom]_vars

\* stored configurations and queries that the validation of the routes is
\* about: Year or Life view; no birth date, one that is no date, or a date; a
\* device with its width and height, or without one of them
InitRoute ==
    /\ clock = [year |-> 2024, doy |-> 196, hour |-> 0]
    /\ zone = "UTC"
    /\ \E base \in {c \in Configs({<<1170, 2532>>, <<0, 2532>>, <<1170, 0>>},
                                  {DefaultLayout}, {TRUE}) :
                        /\ c.tz = 0 /\ ~c.isMondayFirst
                        /\ c.yearViewLayout = "months"},
          mode \in {"year", "life"},
          birth \in {NoBirthDate, MalformedBirthDate, [year |-> 1990, doy |-> 15]} :
            config = [base EXCEPT !.viewMode = mode, !.birthDate = birth]
    /\ request \in [viewMode : {"year", "life"},
                    birthDate : {NoBirthDate, MalformedBirthDate,
                                 [year |-> 1990, doy |-> 15]},
                    width : {1170}, height : {2532}]
    /\ Idle

NextRoute == RouteGet \/ DotGridGet

SpecRoute == InitRoute /\ [][NextRoute]_vars

\* canvases on both sides of the aspect ratios 2.0 and 2.1 and at them, with
\* paddings on both sides of 0.28, 0.12 and 0.15; the dot-grid route is asked
\* for the Year view of the same canvas
InitSafe ==
    /\ clock = [year |-> 2024, doy |-> 196, hour |-> 0]
    /\ zone = "UTC"
    /\ config \in {c \in Configs({<<1170, 2532>>, <<1080, 2200>>, <<1000, 2000>>,
                                  <<1000, 2001>>, <<1000, 2100>>, <<1000, 2101>>,
                                  <<750, 1334>>, <<2000, 1000>>},
                                 GeomLayouts, {TRUE}) :
                       c.tz = 0 /\ ~c.isMondayFirst /\ c.daysLayoutMode = "continuous"}
    /\ request = [viewMode |-> "year", birthDate |-> NoBirthDate,
                  width |-> config.width, height |-> config.height]
    /\ Idle

SpecSafe == InitSafe /\ [][NextRoute]_vars

\* concurrent requests for a user of the Life view and for another user
InitRate ==
    /\ clock = [year |-> 2024, doy |-> 196, hour |-> 0]
    /\ zone = "UTC"
    /\ \E base \in {c \in Configs({<<1170, 2532>>}, {DefaultLayout}, {TRUE}) :
                        /\ c.tz = 0 /\ ~c.isMondayFirst
                        /\ c.yearViewLayout = "months"} :
            config = [base EXCEPT !.viewMode = "life",
                                  !.birthDate = [year |-> 1990, doy |-> 15]]
    /\ request = NoRequest
    /\ Idle

NextRate == GetReceived \/ GetLimited \/ GetFetched \/ Elapse

SpecRate == InitRate /\ [][NextRate]_vars

MaxWeeksLived == 4200

\* every number of lived weeks from 0 to beyond the life expectancy
InitCalcs ==
    /\ clock = [year |-> 2024, doy |-> 196, hour |-> 0]
    /\ zone = "UTC"
    /\ config \in {c \in Configs({<<1170, 2532>>}, {DefaultLayout}, {TRUE}) :
                      c.tz = 0 /\ ~c.isMondayFirst /\ c.yearViewLayout = "months"}
    /\ request = NoRequest
    /\ ticks = 0
    /\ currentDate = NoDate
    /\ scene = NoScene
    /\ prevScene = NoScene
    /\ reads = <<>>
    /\ calls = 0
    /\ response = NoResponse
    /\ millis = 0
    /\ rateLimitMap = <<>>
    /\ pending = EmptyBag
    /\ reply = NoReply
    /\ pluginRun = NoPluginRun
    /\ refusedAt = <<>>
    /\ lifeStats \in {[weeksLived |-> w] : w \in 0..MaxWeeksLived}

SpecCalcs == InitCalcs /\ [][Calculate]_vars

-----------------------------------------------------------------------------
(* Properties.                                                             *)

\* the leap-year rule of the Gregorian calendar
LeapRule(y) == (y % 4 = 0 /\ y % 100 # 0) \/ y % 400 = 0

\* the weekday index of the first of a month, shifted for a Monday-first week
Shifted(isMondayFirst, w) == IF isMondayFirst THEN (w + 6) % 7 ELSE w

\* the places, in the order drawn, of the dots of a scene that are current
CurrentDots(s) ==
    LET dots == SceneDots(s)
    IN  {k \in DOMAIN dots : dots[k].color = "current"}

\* the right and the bottom edge of the safe area of the scene's canvas
SafeRight(s) == QSub(Num(config.width), s.geometry.paddingX)
SafeBottom(s) == QSub(Num(config.height), s.geometry.SAFE_AREA_BOTTOM)

\* C1: in the Year view (Days and Months layout) with the current day of the
\* year d in 1 .. totalDays, exactly one emitted dot is current, the dot of
\* day d; the dots of earlier days are past, those of later days future.
C1_ExactlyOneCurrent ==
    (scene # NoScene /\ scene.currentDayOfYear \in 1..scene.totalDays) =>
        LET dots == SceneDots(scene)
            d == scene.currentDayOfYear
        IN  /\ Cardinality(CurrentDots(scene)) = 1
            /\ \A k \in DOMAIN dots :
                 dots[k].color = IF dots[k].day < d THEN "past"
                                 ELSE IF dots[k].day = d THEN "current"
                                 ELSE "future"

\* C2: in the Months layout every dot of the 3 x 4 month blocks, with its
\* size, lies inside the safe area: between the side paddings and between
\* the top and the bottom safe area.
C2_MonthsContainment ==
    scene.yearViewLayout = "months" =>
        LET dots == SceneDots(scene)
            g == scene.geometry
        IN  \A k \in DOMAIN dots :
                /\ QLe(g.paddingX, DotLeft(scene, dots[k]))
                /\ QLe(QAdd(DotLeft(scene, dots[k]), g.dotSize), SafeRight(scene))
                /\ QLe(g.SAFE_AREA_TOP, DotTop(scene, dots[k]))
                /\ QLe(QAdd(DotTop(scene, dots[k]), g.dotSize), SafeBottom(scene))

\* C3: in the Days layout every dot, with its size, lies between the side
\* paddings and between the top and the bottom safe area, and the stats line
\* starts below the last row and ends above the bottom safe area.  (A dot's
\* left edge depends on its column only, its top edge on its row only: one
\* dot of each column and of each row stands for the others.)
C3_DaysContainment ==
    scene.yearViewLayout = "days" =>
        LET dots == SceneDots(scene)
            g == scene.geometry
            oneOfCol(c) == dots[CHOOSE k \in DOMAIN dots : dots[k].col = c]
            oneOfRow(r) == dots[CHOOSE k \in DOMAIN dots : dots[k].row = r]
        IN  /\ \A c \in {dots[k].col : k \in DOMAIN dots} :
                /\ QLe(g.paddingX, DotLeft(scene, oneOfCol(c)))
                /\ QLe(QAdd(DotLeft(scene, oneOfCol(c)), g.dotSize), SafeRight(scene))
            /\ \A r \in {dots[k].row : k \in DOMAIN dots} :
                /\ QLe(g.SAFE_AREA_TOP, DotTop(scene, oneOfRow(r)))
                /\ QLe(QAdd(DotTop(scene, oneOfRow(r)), g.dotSize), SafeBottom(scene))
                /\ QLe(QAdd(DotTop(scene, oneOfRow(r)), g.dotSize), g.statsY)
            /\ QLe(QAdd(g.statsY, g.statsFontSize), SafeBottom(scene))

C3_Witness ==
    /\ scene.yearViewLayout = "days"
    /\ scene.startDayOffset = 6
    /\ config.width = 750
    /\ config.layout = DefaultLayout
    /\ scene.stats # <<>>
    /\ QLt(Num(0), scene.geometry.dotSize)
    /\ Len(SceneDots(scene)) = 365

\* C4: a second call of YearView with the props of the first (the same
\* currentDate and timezone among them) yields the same scene, whatever the
\* time of the clock at either call.
C4_Determinism == prevScene # NoScene => scene = prevScene

\* C5: on a 1170 x 2532 canvas, Months layout, with the reference date
\* 2024-07-15 (day 197 of 366): daysLeft is 169, the stats line reads
\* "169d left", separator, "54%", the grid has 366 dots and exactly one is
\* current, the dot of day 197.
C5_Scenario ==
    (/\ scene.yearViewLayout = "months"
     /\ config.width = 1170 /\ config.height = 2532 /\ config.statsVisible
     /\ currentDate.year = 2024 /\ currentDate.doy = 197) =>
        LET dots == SceneDots(scene)
        IN  /\ scene.daysLeft = 169
            /\ Len(scene.stats) = 1
            /\ scene.stats[1].text = <<169, "d left", ".", 54, "%">>
            /\ Len(dots) = 366
            /\ CurrentDots(scene) = {197}
            /\ dots[197].day = 197

\* C6: the total number of days of the clock's year is 366 if the year is a
\* leap year by the Gregorian rule and 365 otherwise (2000: 366, 2023: 365,
\* 2024: 366, 2100: 365); getTotalDaysInCurrentYear, the total inside
\* calculateDaysLeftInYear and the sum of the legacy route's daysPerMonth
\* agree; a scene's totalDays is that of the year of its clock read.
C6_LeapYear ==
    LET y == clock.year
        total == getTotalDaysInCurrentYear(clock)
        m == daysPerMonth(y)
    IN  /\ total = IF LeapRule(y) THEN 366 ELSE 365
        /\ totalDaysInYear(y) = total
        /\ m[1] + m[2] + m[3] + m[4] + m[5] + m[6] + m[7] + m[8] + m[9] + m[10]
             + m[11] + m[12] = total
        /\ y = 2000 => total = 366
        /\ y = 2023 => total = 365
        /\ y = 2024 => total = 366
        /\ y = 2100 => total = 365
        /\ scene # NoScene =>
             scene.totalDays = IF LeapRule(reads[4].year) THEN 366 ELSE 365

C6_Witness == scene # NoScene /\ reads[4].year = 2100 /\ scene.totalDays = 365

C8_MondayFirstShift ==
    scene # NoScene =>
        LET y == scene.currentYear
            mf == config.isMondayFirst
            calendar == scene.yearViewLayout = "days"
                        /\ config.daysLayoutMode = "calendar"
        IN  /\ scene.startDayOffset \in 0..6
            /\ ~calendar => scene.startDayOffset = 0
            /\ calendar => scene.startDayOffset = Shifted(mf, DateGetDay(y, 0))
            /\ (calendar /\ y = 2025) => scene.startDayOffset = IF mf THEN 2 ELSE 3
            /\ (calendar /\ y = 2023) => scene.startDayOffset = IF mf THEN 6 ELSE 0
            /\ \A m \in 0..11 :
                 /\ getFirstDayOfMonth(mf, y, m) = Shifted(mf, DateGetDay(y, m))
                 /\ getFirstDayOfMonth(mf, y, m) \in 0..6
            /\ scene.yearViewLayout = "months" =>
                 \A m \in 0..11 :
                    MonthDots(mf, y, m, 0, scene.currentDayOfYear)[1].cell
                        = Shifted(mf, DateGetDay(y, m))

C8_Witness ==
    /\ scene.yearViewLayout = "days"
    /\ config.daysLayoutMode = "calendar"
    /\ config.isMondayFirst
    /\ scene.currentYear = 2023
    /\ scene.startDayOffset = 6

\* C9: the weeks lived of the Life view are never negative, a birth date
\* after the reference date giving 0, and so are the life percentage and the
\* number of boxes highlighted; on a server in UTC the weeks lived are the
\* whole weeks in the days from the birth date to the reference date.
C9_WeeksLivedNeverNegative ==
    (response.status = 200 /\ response.viewMode = "life") =>
        LET days == DaysFromEpoch(clock.year, clock.doy)
                    - DaysFromEpoch(request.birthDate.year, request.birthDate.doy)
        IN  /\ response.weeksLived >= 0
            /\ response.lifePercentage >= 0
            /\ response.boxesToHighlight >= 0
            /\ zone = "UTC" =>
                 response.weeksLived = IF days < 0 THEN 0 ELSE days \div 7

\* C10: when the current day of the year lies beyond the last dot of the
\* grid, the last dot is the one current dot.
C10_OverflowClamped ==
    (scene # NoScene /\ scene.currentDayOfYear > Len(SceneDots(scene))) =>
        LET dots == SceneDots(scene)
        IN  /\ dots[Len(dots)].color = "current"
            /\ CurrentDots(scene) = {Len(dots)}

\* C11: in the Life view with 0 <= weeksLived < 4160 the week cells before
\* the cell weeksLived are drawn as past, those after it as future, and the
\* cell weeksLived itself as current: as neither of the two.
C11_LifeExactlyOneCurrent ==
    (/\ response.status = 200
     /\ response.viewMode = "life"
     /\ response.weeksLived \in 0..(TOTAL_WEEKS - 1)) =>
        LET boxes == ResponseBoxes(response)
            w == response.weeksLived
            look(index) == LegacyBoxLook(boxes[index + 1].isPast)
        IN  /\ \A index \in 0..(w - 1) : look(index) = LegacyBoxLook(TRUE)
            /\ \A index \in (w + 1)..(TOTAL_WEEKS - 1) : look(index) = LegacyBoxLook(FALSE)
            /\ look(w) # LegacyBoxLook(TRUE)
            /\ look(w) # LegacyBoxLook(FALSE)

\* an overlay element that has the fields every element of its kind must have
HasFields(element, names) ==
    element.t = "object" /\ \A name \in names : ~IsNullish(Get(element, name))

WellFormedText(element) == HasFields(element, {"id", "visible", "content", "x", "y"})

WellFormedPlugin(element) ==
    /\ HasFields(element, {"type"})
    /\ Get(element, "type") \in {Str(<<"text">>), Str(<<"rect">>), Str(<<"circle">>)}
           => HasFields(element, {"x", "y"})
    /\ Get(element, "type") = Str(<<"line">>)
           => HasFields(element, {"x1", "y1", "x2", "y2"})

\* a text element that is to be shown: visible, with content that is not empty
Shown(element) ==
    /\ Get(element, "visible") = Bool(TRUE)
    /\ Get(element, "content").t = "string"
    /\ Get(element, "content").v # <<>>

\* the positions in a list of the elements an emitted list was made from
Sources(divs) == {divs[k].index + 1 : k \in DOMAIN divs}

\* C12: whatever malformed entries the lists of text elements and of plugin
\* elements hold, the request is answered with the image of a scene that has
\* every dot of the year; no malformed entry is emitted and every well-formed
\* text element that is to be shown is.
C12_MalformedOverlaysOmitted ==
    reply # NoReply =>
        /\ reply.status = 200
        /\ scene.yearViewLayout \in {"days", "months"}
        /\ Len(SceneDots(scene)) = scene.totalDays
        /\ \A i \in DOMAIN config.textElements :
               /\ ~WellFormedText(config.textElements[i])
                      => i \notin Sources(scene.textElements)
               /\ WellFormedText(config.textElements[i]) /\ Shown(config.textElements[i])
                      => i \in Sources(scene.textElements)
        /\ \A i \in DOMAIN pluginRun.pluginRenderElements :
               ~WellFormedPlugin(pluginRun.pluginRenderElements[i])
                   => i \notin Sources(scene.pluginElements)

\* C13: a Life view without a birth date, a configuration without the width or
\* the height of the device, and a Life view with a birth date that is no date
\* are answered with an error before a view is composed: the username route
\* calls YearView or LifeView only when none of the three holds, and no route
\* answers a Life view request with another view.
C13_RejectedBeforeComposition ==
    /\ reply # NoReply =>
           LET rejected ==
                   \/ config.viewMode = "life" /\ config.birthDate = NoBirthDate
                   \/ config.width = 0 \/ config.height = 0
                   \/ config.viewMode = "life" /\ config.birthDate = MalformedBirthDate
           IN  /\ rejected => reply.status = 400 /\ scene = NoScene
               /\ ~rejected => reply.status = 200 /\ scene # NoScene
               /\ config.viewMode = "life" /\ scene # NoScene
                      => scene.yearViewLayout = "life"
    /\ response # NoResponse =>
           /\ request.viewMode = "life" /\ request.birthDate = NoBirthDate
                  => response.status = 400
           /\ request.viewMode = "life" /\ request.birthDate = MalformedBirthDate
                  => response.status = 400
           /\ request.viewMode = "life" /\ response.status = 200
                  => response.view = "life"

\* the layer of a child of the scene: dots lowest, plugin elements topmost
Layer(child) ==
    CASE child.kind = "dot" -> 1
      [] child.kind = "stats" -> 2
      [] child.kind = "textElement" -> 3
      [] child.kind = "pluginElement" -> 4

\* C14: in a composed scene of either Year layout the children are ordered by
\* layer: every dot of the year, then the stats footer (there iff statsVisible),
\* then the custom text elements, then the plugin elements, the elements of one
\* layer in the order of their input.
C14_ZOrder ==
    scene.yearViewLayout \in {"days", "months"} =>
        LET children == SceneChildren(scene)
        IN  /\ \A k \in 1..(Len(children) - 1) :
                   \/ Layer(children[k]) < Layer(children[k + 1])
                   \/ /\ Layer(children[k]) = Layer(children[k + 1])
                      /\ children[k].index < children[k + 1].index
            /\ Cardinality({k \in DOMAIN children : children[k].kind = "dot"})
                   = scene.totalDays
            /\ Cardinality({k \in DOMAIN children : children[k].kind = "stats"})
                   = IF config.statsVisible THEN 1 ELSE 0
            /\ Len(children) = scene.totalDays + Len(scene.stats)
                                   + Len(scene.textElements) + Len(scene.pluginElements)

\* a scene with the stats footer, two custom text elements and a plugin element
C14_Witness ==
    /\ scene.yearViewLayout = "months"
    /\ Len(scene.stats) = 1
    /\ Len(scene.textElements) = 2
    /\ Len(scene.pluginElements) = 1

\* C15: a custom text element is emitted iff it is visible and its content is
\* neither null nor empty, so the scene has as many text elements as the
\* configuration has elements that are to be shown.
C15_TextShownIff ==
    scene.yearViewLayout \in {"days", "months"} =>
        /\ \A i \in DOMAIN config.textElements :
               i \in Sources(scene.textElements) <=> Shown(config.textElements[i])
        /\ Len(scene.textElements)
               = Cardinality({i \in DOMAIN config.textElements :
                                 Shown(config.textElements[i])})

\* a plugin element that is to be emitted: well-formed and, when it is a text,
\* with content that is a string and not empty
Emitted(element) ==
    /\ WellFormedPlugin(element)
    /\ Get(element, "type") = Str(<<"text">>)
           => /\ Get(element, "content").t = "string"
              /\ Trim(Get(element, "content").v) # <<>>

\* C16: a plugin element is emitted iff it is well-formed (whatever its type:
\* text, rect, circle or line) and, for a text, its content is not empty, so
\* the scene has as many plugin elements as the plugins returned elements that
\* are to be emitted.
C16_PluginEmittedIff ==
    scene.yearViewLayout \in {"days", "months"} =>
        /\ \A i \in DOMAIN pluginRun.pluginRenderElements :
               i \in Sources(scene.pluginElements)
                   <=> Emitted(pluginRun.pluginRenderElements[i])
        /\ Len(scene.pluginElements)
               = Cardinality({i \in DOMAIN pluginRun.pluginRenderElements :
                                 Emitted(pluginRun.pluginRenderElements[i])})

\* the transforms that anchor an element as its align asks: none at the left
\* (or without align), a shift by half of its own box when centred, by the
\* whole of its box at the right
Anchored(align) ==
    IF align = Str(<<"center">>) THEN {"translateX(-50%)", "translate(-50%, -50%)"}
    ELSE IF align = Str(<<"right">>) THEN {"translateX(-100%)", "translate(-100%, -50%)"}
    ELSE {"none"}

\* C17: an emitted custom text element is placed at x% and y% of the canvas, an
\* emitted plugin element at x and y pixels, and each is translated as its align
\* asks: not at all for left or no align, by -50% of its own box for center, by
\* -100% for right.
C17_OverlayAnchoring ==
    scene.yearViewLayout \in {"days", "months"} =>
        /\ \A k \in DOMAIN scene.textElements :
               LET div == scene.textElements[k]
                   element == config.textElements[div.index + 1]
               IN  /\ div.left = Length(Get(element, "x"), "%")
                   /\ div.top = Length(Get(element, "y"), "%")
                   /\ div.transform \in Anchored(Get(element, "align"))
        /\ \A k \in DOMAIN scene.pluginElements :
               LET div == scene.pluginElements[k]
                   element == pluginRun.pluginRenderElements[div.index + 1]
               IN  /\ div.left = Length(Get(element, "x"), "px")
                   /\ div.top = Length(Get(element, "y"), "px")
                   /\ div.transform \in Anchored(Get(element, "align"))

\* the paddings of the tiering, in hundredths: the top padding at least 0.28
\* above the aspect ratio 2.0, the side padding at most 0.12 above 2.1 and at
\* most 0.15 above 2.0, the bottom padding as configured
Tiered(width, height, layout) ==
    [top |-> IF height > 2 * width /\ layout.topPadding < 28
             THEN 28
             ELSE layout.topPadding,
     bottom |-> layout.bottomPadding,
     side |-> IF 10 * height > 21 * width /\ layout.sidePadding > 12 THEN 12
              ELSE IF height > 2 * width /\ layout.sidePadding > 15 THEN 15
              ELSE layout.sidePadding]

\* whether a safe area is the one the tiering gives
IsTiered(area, width, height, layout) ==
    LET t == Tiered(width, height, layout)
    IN  /\ area.SAFE_AREA_TOP = Q(height * t.top, 100)
        /\ area.SAFE_AREA_BOTTOM = Q(height * t.bottom, 100)
        /\ area.paddingX = Q(width * t.side, 100)

\* C18: the safe area of every Year view, in the Days and in the Months layout,
\* is the one the tiering by aspect ratio gives for the configured paddings;
\* the Year view of the dot-grid route has the tiering of the default paddings.
C18_SafeAreaTiering ==
    /\ scene.yearViewLayout \in {"days", "months"}
           => IsTiered(scene.geometry, config.width, config.height, config.layout)
    /\ response # NoResponse
           => IsTiered(response.safeArea, request.width, request.height, DefaultLayout)

\* a canvas of aspect ratio 2.1 exactly, with a top padding below 0.28 and a
\* side padding above 0.15, rendered by both routes
C18_Witness ==
    /\ scene.yearViewLayout = "days"
    /\ response # NoResponse
    /\ config.height * 10 = config.width * 21
    /\ config.layout.topPadding < 28
    /\ config.layout.sidePadding > 15

\* the record of a username in a map, or none
Window(map, username) ==
    IF username \in DOMAIN map THEN map[username] ELSE [count |-> 0]

\* a request for username passes the rate limiter in this step: either it opens
\* a window (count 1, resetTime one window from now) where the user has none
\* that lasts, or it raises the count of the lasting window by one, to at most
\* RATE_LIMIT_MAX
Granted(username) ==
    LET now == DateNow(zone, clock, millis)
        old == Window(rateLimitMap, username)
        new == Window(rateLimitMap', username)
    IN  IF old.count = 0 \/ Later(now, old.resetTime)
        THEN new = [count |-> 1, resetTime |-> PlusMs(now, RATE_LIMIT_WINDOW)]
        ELSE /\ old.count < RATE_LIMIT_MAX
             /\ new = [old EXCEPT !.count = old.count + 1]

\* a request for username is turned away in this step: its window lasts and is
\* full, no counter changes, the answer is 429 and no fetch is begun
Refused(username) ==
    LET now == DateNow(zone, clock, millis)
        old == Window(rateLimitMap, username)
    IN  /\ old.count >= RATE_LIMIT_MAX
        /\ ~Later(now, old.resetTime)
        /\ rateLimitMap' = rateLimitMap
        /\ reply'.status = 429

\* what a step does to the rate limiter
RateLimitStep ==
    /\ \A r \in BagToSet(pending) :
           LET username == toLowerCase(r.rawUsername)
               fetching == [r EXCEPT !.at = "config"]
           IN  r.at = "params" /\ username # <<>>
                   /\ CopiesIn(r, pending') < CopiesIn(r, pending)
               => /\ IF CopiesIn(fetching, pending') > CopiesIn(fetching, pending)
                     THEN Granted(username)
                     ELSE Refused(username)
                  /\ \A other \in DOMAIN rateLimitMap' \ {username} :
                         Window(rateLimitMap', other) = Window(rateLimitMap, other)
    /\ (\A r \in BagToSet(pending) :
            r.at = "params" /\ toLowerCase(r.rawUsername) # <<>>
                => CopiesIn(r, pending') >= CopiesIn(r, pending))
           => rateLimitMap' = rateLimitMap
    /\ \A username \in DOMAIN rateLimitMap' :
           rateLimitMap'[username].count \in 1..RATE_LIMIT_MAX

\* C19: under every interleaving of requests, a call of checkRateLimit returns
\* true iff the user's window is new or holds fewer than RATE_LIMIT_MAX calls;
\* each such call is counted once, in that user's counter alone, so no window
\* counts more than RATE_LIMIT_MAX calls; every other call is answered 429
\* without a fetch of the configuration.
C19_RateLimit == [][RateLimitStep]_vars

\* the user's window is full with two requests waiting, one was answered 429,
\* and another user has a window of their own
C19_Witness ==
    /\ <<"a">> \in DOMAIN rateLimitMap
    /\ rateLimitMap[<<"a">>].count = RATE_LIMIT_MAX
    /\ reply.status = 429
    /\ <<"b">> \in DOMAIN rateLimitMap
    /\ BagCardinality(pending) = MaxPending


\* weeksLived / 4160 * 100 rounded to one decimal place, in tenths of a percent:
\* the nearest tenth of the exact quotient, the upper one of two equally near
RoundedPercentage(weeksLived) ==
    (2 * 1000 * weeksLived + TOTAL_WEEKS) \div (2 * TOTAL_WEEKS)

\* C20: for every number of lived weeks w >= 0, calculateWeeksRemaining(w) is
\* max(0, 4160 - w) and never negative, and calculateLifePercentage(w) is
\* w / 4160 * 100 rounded to one decimal place; for 0 <= w <= 4160 the
\* percentage lies in [0, 100] and is not less than the percentage of w - 1.
C20_WeeksRemainingAndPercentage ==
    "lifePercentage" \in DOMAIN lifeStats =>
        /\ lifeStats.weeksRemaining =
               (IF 4160 - lifeStats.weeksLived > 0 THEN 4160 - lifeStats.weeksLived ELSE 0)
        /\ lifeStats.weeksRemaining >= 0
        /\ lifeStats.lifePercentage = RoundedPercentage(lifeStats.weeksLived)
        /\ lifeStats.weeksLived <= 4160 =>
               /\ lifeStats.lifePercentage \in 0..1000
               /\ lifeStats.weeksLived > 0 =>
                      lifeStats.lifePercentage
                          >= calculateLifePercentage(lifeStats.weeksLived - 1)

\* the parts of C20 that hold: the weeks remaining, the range and the order of
\* the percentages, and a percentage that is a tenth nearest to the exact
\* quotient
C20_NearestTenth ==
    "lifePercentage" \in DOMAIN lifeStats =>
        /\ lifeStats.weeksRemaining =
               (IF 4160 - lifeStats.weeksLived > 0 THEN 4160 - lifeStats.weeksLived ELSE 0)
        /\ 2 * TOTAL_WEEKS * lifeStats.lifePercentage
               \in (2 * 1000 * lifeStats.weeksLived - TOTAL_WEEKS)
                       ..(2 * 1000 * lifeStats.weeksLived + TOTAL_WEEKS)
        /\ lifeStats.weeksLived <= 4160 =>
               /\ lifeStats.lifePercentage \in 0..1000
               /\ lifeStats.weeksLived > 0 =>
                      lifeStats.lifePercentage
                          >= calculateLifePercentage(lifeStats.weeksLived - 1)

\* the bottom edge of the grid of a scene: of the last row of dots in the Days
\* layout, of the last row of month blocks in the Months layout
GridBottom(s) ==
    LET g == s.geometry
    IN  IF s.yearViewLayout = "days"
        THEN QSub(QAdd(g.startY, QScale(g.rows, QAdd(g.dotSize, g.dotGap))), g.dotGap)
        ELSE QAdd(QAdd(g.startY,
                       QScale(ROWS - 1, QAdd(g.monthBlockHeight, g.rowGap))),
                  g.monthBlockHeight)

\* the rows of dots of a scene: each as a dot that stands for its row
DotRows(s) ==
    LET dots == SceneDots(s)
    IN  {[month |-> dots[k].month - (dots[k].month % COLUMNS), row |-> dots[k].row,
          col |-> 0] : k \in DOMAIN dots}

\* C21: in both layouts of the Year view the top of the stats line is the
\* bottom edge of the grid plus a margin proportional to the cell size (2 x
\* dotSize in Days, 3 x the size of the month label in Months), and every dot
\* drawn ends at or above the bottom edge of the grid and so at or above the
\* top of the stats line.
C21_StatsBelowGrid ==
    scene.yearViewLayout \in {"days", "months"} =>
        LET g == scene.geometry
        IN  /\ g.statsY =
                  QAdd(GridBottom(scene),
                       IF scene.yearViewLayout = "days" THEN QScale(2, g.dotSize)
                       ELSE QScale(3, g.monthLabelSize))
            /\ QLe(GridBottom(scene), g.statsY)
            /\ \A dot \in DotRows(scene) :
                   /\ QLe(QAdd(DotTop(scene, dot), g.dotSize), GridBottom(scene))
                   /\ QLe(QAdd(DotTop(scene, dot), g.dotSize), g.statsY)
            /\ scene.stats # <<>> => scene.stats[1].top = g.statsY

\* a Months scene with a stats line and a dot in the last row of a month block
\* of the last row of blocks, which ends at the bottom edge of the grid
C21_Witness ==
    /\ scene.yearViewLayout = "months"
    /\ scene.stats # <<>>
    /\ QLt(Num(0), scene.geometry.dotSize)
    /\ config.layout.dotSpacing = 0
    /\ \E dot \in DotRows(scene) :
           /\ dot.month = 9
           /\ dot.row = 5
           /\ QAdd(DotTop(scene, dot), scene.geometry.dotSize) = GridBottom(scene)
    /\ QLt(GridBottom(scene), scene.geometry.statsY)

\* C22: in the Months layout, for the year drawn and either week start, each
\* month block holds exactly daysInMonth dots, all within the 42 cells of its
\* 7 x 6 grid and in the cells from startDay on, so that the first startDay
\* cells are blank; the global day counter gives the dots the numbers 1 ..
\* totalDaysInYear in the order of the calendar, without gap or repeat, and
\* the twelve blocks hold totalDaysInYear dots together.
C22_MonthsPopulation ==
    scene.yearViewLayout = "months" =>
        LET dots == SceneDots(scene)
            y == scene.currentYear
            startDay(m) == Shifted(scene.isMondayFirst, DateGetDay(y, m))
        IN  /\ Len(dots) = IF LeapRule(y) THEN 366 ELSE 365
            /\ \A k \in DOMAIN dots :
                 /\ dots[k].day = k
                 /\ dots[k].month \in 0..11
                 /\ dots[k].cell \in 0..41
                 /\ dots[k].cell >= startDay(dots[k].month)
                 /\ dots[k].day = DateDaysBeforeMonth(y, dots[k].month)
                                      + (dots[k].cell - startDay(dots[k].month) + 1)
            /\ \A m \in 0..11 :
                 {dots[k].cell : k \in {j \in DOMAIN dots : dots[j].month = m}}
                     = startDay(m)..(startDay(m) + DateDaysInMonth(y, m) - 1)

\* a leap year under Monday-first whose December starts on a Sunday: 31 dots
\* from cell 6 to cell 36
C22_Witness ==
    /\ scene.yearViewLayout = "months"
    /\ scene.isMondayFirst
    /\ Len(SceneDots(scene)) = 366
    /\ SceneDots(scene)[366].month = 11
    /\ SceneDots(scene)[366].cell = 36
    /\ SceneDots(scene)[336].cell = 6

\* C23: in the Days layout, for every year, layout mode and week start, the
\* number of rows is ceil((startDayOffset + totalDays) / 14); day n sits in
\* row floor((n - 1 + startDayOffset) / 14) and column (n - 1 +
\* startDayOffset) mod 14; every row used is below the number of rows and
\* every column below 14; no two days share a cell; the first startDayOffset
\* cells of row 0 stay empty.
C23_DaysPlacement ==
    scene.yearViewLayout = "days" =>
        LET dots == SceneDots(scene)
            offset == scene.startDayOffset
            rows == scene.geometry.rows
        IN  /\ 14 * (rows - 1) < offset + scene.totalDays
            /\ offset + scene.totalDays <= 14 * rows
            /\ Len(dots) = scene.totalDays
            /\ \A n \in DOMAIN dots :
                 /\ dots[n].day = n
                 /\ dots[n].row = (n - 1 + offset) \div 14
                 /\ dots[n].col = (n - 1 + offset) % 14
                 /\ dots[n].row \in 0..(rows - 1)
                 /\ dots[n].col \in 0..13
                 /\ ~(dots[n].row = 0 /\ dots[n].col < offset)
            /\ Cardinality({<<dots[n].row, dots[n].col>> : n \in DOMAIN dots})
                   = scene.totalDays

\* a leap year that begins on a Sunday, in calendar mode under Monday-first:
\* 6 empty cells and 366 days in 27 rows
C23_Witness ==
    /\ scene.yearViewLayout = "days"
    /\ scene.startDayOffset = 6
    /\ scene.totalDays = 366
    /\ scene.geometry.rows = 27
    /\ SceneDots(scene)[1].col = 6
    /\ SceneDots(scene)[366].row = 26
    /\ SceneDots(scene)[366].col = 7

\* a dot of the month block monthIndex in the given row and column of its grid
BlockDot(monthIndex, row, col) == [month |-> monthIndex, row |-> row, col |-> col]

\* C24: in the Months layout the 7 dots and 6 gaps of a block's grid fit in
\* the width of its column (availableWidth / 3) and a block's height fits in
\* the pitch of the rows of blocks, so that the dots of different months do not
\* overlap: the last column of a block ends before the first column of the
\* block to its right begins, the last row of a block ends before the first
\* row of the block below begins, and the blocks of the right column end at or
\* before width less the side padding.
C24_MonthBlocksApart ==
    scene.yearViewLayout = "months" =>
        LET g == scene.geometry
        IN  /\ QLe(QAdd(QScale(7, g.dotSize), QScale(6, g.dotGap)), g.cellWidth)
            /\ QLe(g.monthBlockHeight, QAdd(g.monthBlockHeight, g.rowGap))
            /\ \A m \in 0..11 :
                 /\ m % COLUMNS < COLUMNS - 1 =>
                      QLe(QAdd(DotLeft(scene, BlockDot(m, 0, 6)), g.dotSize),
                          DotLeft(scene, BlockDot(m + 1, 0, 0)))
                 /\ m + COLUMNS <= 11 =>
                      QLe(QAdd(DotTop(scene, BlockDot(m, 5, 0)), g.dotSize),
                          DotTop(scene, BlockDot(m + COLUMNS, 0, 0)))
                 /\ QLe(QAdd(DotLeft(scene, BlockDot(m, 0, 6)), g.dotSize),
                        SafeRight(scene))

C26_DayOfYearIsOrdinal ==
    scene # NoScene /\ scene # Thrown =>
        /\ scene.currentDayOfYear = reads[1].doy
        /\ \A h \in 0..23 :
             getCurrentDayOfYear(zone, [reads[1] EXCEPT !.hour = h]) = reads[1].doy

\* C27: within one render of YearView the day of the year, the days left, the
\* total number of days and the calendar year of the January 1 offset and of
\* the month lengths all come from one reference date, the currentDate
\* supplied (the date in the user's time zone): so 1 <= currentDayOfYear <=
\* totalDays and currentDayOfYear + daysLeft = totalDays in every render, also
\* when the server's clock and the user's time zone are on different sides of
\* New Year.
C27_OneReferenceDate ==
    (scene # NoScene /\ scene # Thrown /\ scene.yearViewLayout # "life") =>
        /\ scene.currentYear = currentDate.year
        /\ scene.currentDayOfYear = currentDate.doy
        /\ scene.totalDays = (IF LeapRule(currentDate.year) THEN 366 ELSE 365)
        /\ scene.currentDayOfYear \in 1..scene.totalDays
        /\ scene.currentDayOfYear + scene.daysLeft = scene.totalDays


\* a request for username passes through the limiter in this step, at least
\* one window after that username's last request was answered 429 and with no
\* request of that username in between: it is let through to the fetch and
\* opens a window of its own, count 1, lasting one window from now
RetryAdmitted(r, username, now) ==
    (/\ username \in DOMAIN refusedAt
     /\ ~Later(PlusMs(refusedAt[username], RATE_LIMIT_WINDOW), now))
        => /\ CopiesIn([r EXCEPT !.at = "config"], pending')
                  > CopiesIn([r EXCEPT !.at = "config"], pending)
           /\ Window(rateLimitMap', username)
                  = [count |-> 1, resetTime |-> PlusMs(now, RATE_LIMIT_WINDOW)]

\* a request for username passes through the limiter in this step and is
\* answered 429: no count and no resetTime changes
RefusalCountsNothing(r) ==
    CopiesIn([r EXCEPT !.at = "config"], pending')
            <= CopiesIn([r EXCEPT !.at = "config"], pending)
        => reply'.status = 429 /\ rateLimitMap' = rateLimitMap

\* what a step does for a client that was turned away
RetryStep ==
    \A r \in BagToSet(pending) :
        r.at = "params" /\ toLowerCase(r.rawUsername) # <<>>
            /\ CopiesIn(r, pending') < CopiesIn(r, pending)
        => /\ RetryAdmitted(r, toLowerCase(r.rawUsername), DateNow(zone, clock, millis))
           /\ RefusalCountsNothing(r)

\* C28: a client that was answered 429 (Retry-After: 60) and whose next
\* request for the same username arrives 60 seconds or more after that answer,
\* with no other request for that username in between, is let through, and
\* that request opens a new window with count 1; a request answered 429 neither
\* raises the count nor moves resetTime.
C28_RetryAfterWindow == [][RetryStep]_vars


\* the plugin of an entry succeeded: the entry is enabled, its plugin is
\* built in or could be loaded, and its execute returned an array
Succeeded(pluginConfig) ==
    /\ pluginConfig.enabled
    /\ pluginConfig.pluginId \in availablePlugins \/ pluginConfig.stored = "plugin"
    /\ pluginConfig.execute.does = "returns"
    /\ pluginConfig.execute.value.t = "array"

\* the number of elements returned by the plugins that succeeded among the
\* entries before the one at index
RECURSIVE ReturnedBefore(_, _)
ReturnedBefore(plugins, index) ==
    IF index = 1
    THEN 0
    ELSE ReturnedBefore(plugins, index - 1)
             + (IF Succeeded(plugins[index - 1])
                THEN Len(plugins[index - 1].execute.value.v)
                ELSE 0)

\* the positions in the log of the event logged for the entry at index
LoggedFor(log, index, event) ==
    {a \in DOMAIN log : log[a].index = index /\ log[a].event = event}

\* the loop over the entries plugins left this log and these elements
PluginsIsolated(plugins, log, elements) ==
    /\ \A a, b \in DOMAIN log : a < b => log[a].index <= log[b].index
    /\ \A i \in DOMAIN plugins :
        /\ \E a \in DOMAIN log : log[a].index = i
        /\ \A a \in DOMAIN log : log[a].index = i => log[a].pluginId = plugins[i].pluginId
        /\ ~plugins[i].enabled
               => /\ LoggedFor(log, i, "Loading user plugin") = {}
                  /\ LoggedFor(log, i, "Executing plugin") = {}
        /\ Cardinality(LoggedFor(log, i, "Executing plugin")) <= 1
        /\ Succeeded(plugins[i])
               => /\ LoggedFor(log, i, "Executing plugin") # {}
                  /\ \A k \in DOMAIN plugins[i].execute.value.v :
                         elements[ReturnedBefore(plugins, i) + k]
                             = plugins[i].execute.value.v[k]
    /\ Len(elements) = ReturnedBefore(plugins, Len(plugins) + 1)

LegacyAfterEnhanced ==
    /\ "legacy" \in DOMAIN scene
    /\ prevScene # NoScene /\ prevScene # Thrown
    /\ "legacy" \notin DOMAIN prevScene

\* C30: with the default colours, typography and layout ratios (0.25 / 0.15 /
\* 0.18 / 0.7) and no text or plugin elements, YearView draws the grid the
\* YearView of before draws, for every canvas size, yearViewLayout,
\* daysLayoutMode and isMondayFirst: the same paddings, cell size, gap and
\* grid origin, the same dots at the same places in the same colours, and the
\* same stats line at the same offset in the same font size.
C30_EnhancedRefinesLegacy ==
    LegacyAfterEnhanced =>
        /\ prevScene.geometry = scene.geometry
        /\ prevScene.startDayOffset = scene.startDayOffset
        /\ LET dots == SceneDots(scene)
           IN  /\ SceneDots(prevScene) = dots
               /\ \A k \in DOMAIN dots :
                   /\ DotLeft(prevScene, dots[k]) = DotLeft(scene, dots[k])
                   /\ DotTop(prevScene, dots[k]) = DotTop(scene, dots[k])
        /\ prevScene.stats = scene.stats
        /\ prevScene.textElements = <<>> /\ prevScene.pluginElements = <<>>

\* both drew the Days layout in calendar mode with cells left empty before
\* January 1, on a canvas more than 2.1 times as high as wide, in mid-year
C30_Witness ==
    /\ LegacyAfterEnhanced
    /\ scene.yearViewLayout = "days"
    /\ scene.startDayOffset > 0
    /\ config.width = 1170 /\ config.height = 2532
    /\ scene.currentDayOfYear = 196
    /\ scene.geometry.paddingX = QScale(1170, Q(12, 100))

====
